---------------------------- MODULE Spec2Model ----------------------------
(***************************************************************************)
(* A model of the ecdosim script collection: the command-line scripts of   *)
(* step2-processing, step4-render and v13, and the Blender-hosted scripts  *)
(* of step3-blender.  Every script is a standalone program, so the model   *)
(* is a family of independent machines, one specification per machine.     *)
(***************************************************************************)
EXTENDS Integers, Sequences, FiniteSets, TLC

VARIABLES
    \* ---- command-line machine (step2-processing, step4-render, v13) ----
    cliScript,   \* which script is started
    cliIn,       \* its command line and the files it finds
    cliPc,       \* "start" | "done"
    cliExit,     \* exit status of the process (-1 while it runs)
    cliOut,      \* the files the process has written
    \* ---- Blender scene machine (step3-blender scripts run on a scene) ----
    bScript,     \* which script is run from the text editor
    bScene,      \* the objects of the scene
    bPc,         \* "start" | "done"
    bOutcome,    \* "running" | "raised" | "returned"
    bLog,        \* the kinds of message printed
    \* ---- loop machine (the data-dependent loops) ----
    lKind,       \* "bake" | "zigzag" | "closing"
    lPc,         \* position in the function that holds the loop
    lSt,         \* the local variables of that function
    \* ---- frame listing machine (script98 list_input_frames, run twice) ----
    sortListing, \* per run: the order in which os.listdir gives the names
    sortResult,  \* per run: pending, the returned list, or the error raised
    \* ---- script7-chop-bottom on one raster ----
    chopIn,      \* the band read: dtype, nodata, pixels, and the --threshold
    chopPc,      \* "start" | "done"
    chopOut,     \* the pixels written
    \* ---- TIME label of script94-quadruple-fancy / script96 over one run ----
    tScript,     \* "script94fancy" | "script96"
    tTotal,      \* number of PNGs of the run
    tIdx,        \* the frame the loop is at (1-based)
    tLabels,     \* the day and hour fields drawn so far, frame by frame
    \* ---- SCRIPTBLENDER8-SCALE-ALL on one scene ----
    scObjects,   \* per object: present, field type, active action, NLA strip actions
    scActions,   \* per action: the keyframe values of its F-curves, by data path
    scBefore,    \* scActions as it was before the run
    scQueue,     \* the objects main has still to go through
    scPc,        \* "plain" | "vortex" | "done"
    \* ---- F-curve machine (the step3-blender functions that edit one curve) ----
    kKind,       \* "retime" | "runsum" | "delzero" | "backfill" | "keying"
    kPc,         \* position in the function
    kSt          \* the curve(s) and the local variables of the function

cliVars == <<cliScript, cliIn, cliPc, cliExit, cliOut>>
bVars == <<bScript, bScene, bPc, bOutcome, bLog>>
lVars == <<lKind, lPc, lSt>>
sortVars == <<sortListing, sortResult>>
chopVars == <<chopIn, chopPc, chopOut>>
tVars == <<tScript, tTotal, tIdx, tLabels>>
scVars == <<scObjects, scActions, scBefore, scQueue, scPc>>
kVars == <<kKind, kPc, kSt>>
vars == <<cliVars, bVars, lVars, sortVars, chopVars, tVars, scVars, kVars>>

(***************************************************************************)
(* The scripts are separate programs: while one machine runs, the others   *)
(* are idle and stay so.                                                   *)
(***************************************************************************)
IdleCli ==
    /\ cliScript = "none" /\ cliIn = "none" /\ cliPc = "idle"
    /\ cliExit = -1 /\ cliOut = {}
IdleBlender ==
    /\ bScript = "none" /\ bScene = "none" /\ bPc = "idle"
    /\ bOutcome = "running" /\ bLog = {}
IdleLoops == lKind = "none" /\ lPc = "idle" /\ lSt = "none"
IdleSort == sortListing = "none" /\ sortResult = "none"
IdleChop == chopIn = "none" /\ chopPc = "idle" /\ chopOut = <<>>
IdleTime == tScript = "none" /\ tTotal = 0 /\ tIdx = 0 /\ tLabels = <<>>
IdleScale ==
    /\ scObjects = "none" /\ scActions = "none" /\ scBefore = "none"
    /\ scQueue = <<>> /\ scPc = "idle"
IdleCurve == kKind = "none" /\ kPc = "idle" /\ kSt = "none"

IdleBut(m) ==
    /\ IF m = "cli" THEN TRUE ELSE IdleCli
    /\ IF m = "blender" THEN TRUE ELSE IdleBlender
    /\ IF m = "loops" THEN TRUE ELSE IdleLoops
    /\ IF m = "sort" THEN TRUE ELSE IdleSort
    /\ IF m = "chop" THEN TRUE ELSE IdleChop
    /\ IF m = "time" THEN TRUE ELSE IdleTime
    /\ IF m = "scale" THEN TRUE ELSE IdleScale
    /\ IF m = "curve" THEN TRUE ELSE IdleCurve

KeepBut(m) ==
    /\ IF m = "cli" THEN TRUE ELSE UNCHANGED cliVars
    /\ IF m = "blender" THEN TRUE ELSE UNCHANGED bVars
    /\ IF m = "loops" THEN TRUE ELSE UNCHANGED lVars
    /\ IF m = "sort" THEN TRUE ELSE UNCHANGED sortVars
    /\ IF m = "chop" THEN TRUE ELSE UNCHANGED chopVars
    /\ IF m = "time" THEN TRUE ELSE UNCHANGED tVars
    /\ IF m = "scale" THEN TRUE ELSE UNCHANGED scVars
    /\ IF m = "curve" THEN TRUE ELSE UNCHANGED kVars

(***************************************************************************)
(* Paths.  A path is [abs, parts]; a relative path with no parts is ".".   *)
(***************************************************************************)
RECURSIVE NormAcc(_, _)
\* os.path.normpath on the components: ".." removes the component before it
NormAcc(acc, rest) ==
    IF rest = <<>> THEN acc
    ELSE IF Head(rest) = ".."
         THEN NormAcc(IF acc = <<>> THEN <<>> ELSE SubSeq(acc, 1, Len(acc) - 1),
                      Tail(rest))
         ELSE NormAcc(Append(acc, Head(rest)), Tail(rest))

\* os.path.abspath(p) for a process whose working directory is cwd
AbsPath(cwd, p) == NormAcc(<<>>, IF p.abs THEN p.parts ELSE cwd \o p.parts)

\* os.path.dirname / os.path.basename of an absolute, normalised path
DirName(parts) == IF parts = <<>> THEN <<>> ELSE SubSeq(parts, 1, Len(parts) - 1)
BaseName(parts) == IF parts = <<>> THEN "" ELSE parts[Len(parts)]

\* os.path.splitext on the names the model uses
SplitExt(name) ==
    CASE name = "in.tif" -> <<"in", ".tif">>
      [] OTHER           -> <<name, "">>

\* pathlib: PurePath.name and PurePath.parent (Path(".").parent is Path("."))
PurePathName(p) == IF p.parts = <<>> THEN "" ELSE p.parts[Len(p.parts)]
PurePathParent(p) ==
    IF p.parts = <<>> THEN p
    ELSE [abs |-> p.abs, parts |-> SubSeq(p.parts, 1, Len(p.parts) - 1)]

\* a written file: the directory that holds it (absolute), its name, its content
File(dir, name, content) == [dir |-> dir, name |-> name, content |-> content]

\* the outcome of one run of a script
Res(exit, out) == [exit |-> exit, out |-> out]

\* what rasterio.open / Image.open need: an existing, readable regular file
Opens(in) == in.kind = "file" /\ in.readable

(***************************************************************************)
(* step2-processing                                                        *)
(***************************************************************************)
\* Script6Main writing its output into the working directory
Script6MainIntoCwd(in) ==
    IF in.nargs # 2 THEN Res(1, {})
    ELSE IF ~in.numsOK THEN Res(1, {})
    ELSE IF in.kind = "missing" THEN Res(1, {})
    ELSE IF ~Opens(in) THEN Res(1, {})
    ELSE IF in.bands < 3 THEN Res(1, {})
    ELSE LET se == SplitExt(BaseName(AbsPath(in.cwd, in.path)))
         IN  Res(0, {File(in.cwd, se[1] \o "_xSpScaled_float32" \o se[2], "raster")})

\* script6-convert-grayscale.py main
Script6Main(in) ==
    IF in.nargs # 2 THEN Res(1, {})
    ELSE IF ~in.numsOK THEN Res(1, {})
    ELSE IF in.kind = "missing" THEN Res(1, {})
    ELSE IF ~Opens(in) THEN Res(1, {})
    ELSE IF in.bands < 3 THEN Res(1, {})
    ELSE LET absIn == AbsPath(in.cwd, in.path)
             se    == SplitExt(BaseName(absIn))
         IN  Res(0, {File(DirName(absIn), se[1] \o "_xSpScaled_float32" \o se[2], "raster")})

\* script7-chop-bottom.py main (argument handling and output path)
Script7ChopMain(in) ==
    IF in.nargs # 1 \/ ~in.thr \/ ~in.numsOK THEN Res(2, {})
    ELSE IF ~Opens(in) THEN Res(1, {})
    ELSE IF in.bands # 1 THEN Res(2, {})
    ELSE LET absIn == AbsPath(in.cwd, in.path)
             se    == SplitExt(BaseName(absIn))
             dflt  == File(DirName(absIn), se[1] \o "_clamped.tif", "raster")
             given == File(DirName(AbsPath(in.cwd, in.outPath)),
                           BaseName(AbsPath(in.cwd, in.outPath)), "raster")
         IN  Res(0, {IF in.outOpt THEN given ELSE dflt})

\* script8-crop-and-hardcode-crs.py main
Script8Main(in) ==
    IF in.nargs # 5 THEN Res(1, {})
    ELSE IF in.kind = "missing" THEN Res(1, {})
    ELSE IF ~in.numsOK THEN Res(1, {})
    ELSE IF ~Opens(in) THEN Res(1, {})
    ELSE IF ~in.cropOK THEN Res(1, {})
    ELSE LET absIn == AbsPath(in.cwd, in.path)
             se    == SplitExt(BaseName(absIn))
         IN  Res(0, {File(DirName(absIn), se[1] \o "_crop_crs4326" \o se[2], "raster")})

\* script9-fix-crs-values.py main
Script9Main(in) ==
    IF in.nargs # 1 THEN Res(1, {})
    ELSE IF in.kind = "missing" THEN Res(1, {})
    ELSE IF ~Opens(in) THEN Res(1, {})
    ELSE LET absIn == AbsPath(in.cwd, in.path)
             se    == SplitExt(BaseName(absIn))
         IN  Res(0, {File(DirName(absIn), se[1] \o "_wgs84_15arcsec_from0_0" \o se[2], "raster")})

\* <stem><tag><suffix> beside the resolved input (Path.resolve().with_name)
WithNameTag(in, tag) ==
    LET absIn == AbsPath(in.cwd, in.path)
        se    == SplitExt(BaseName(absIn))
    IN  File(DirName(absIn), se[1] \o tag \o se[2], "raster")

\* script94-rgb.py main and process_geotiff
Script94RgbMain(in) ==
    IF in.nargs # 1 THEN Res(2, {})
    ELSE IF in.kind = "missing" THEN Res(1, {})
    ELSE IF ~Opens(in) THEN Res(1, {})
    ELSE IF in.bands \notin {1, 4} THEN Res(1, {})
    ELSE Res(0, {WithNameTag(in, "-circlecrop")})

\* script94-v12-circlecrop.py main and process_geotiff
Script94V12Main(in) ==
    IF in.nargs # 1 THEN Res(2, {})
    ELSE IF in.kind = "missing" THEN Res(1, {})
    ELSE IF ~Opens(in) THEN Res(1, {})
    ELSE IF in.bands # 1 THEN Res(1, {})
    ELSE Res(0, {WithNameTag(in, "-circlecrop")})

\* script95-border.py main and add_border
Script95Main(in) ==
    IF in.nargs # 1 THEN Res(2, {})
    ELSE IF in.kind = "missing" THEN Res(1, {})
    ELSE IF ~Opens(in) THEN Res(1, {})
    ELSE IF in.bands \notin {1, 4} THEN Res(1, {})
    ELSE Res(0, {WithNameTag(in, "-border")})

(***************************************************************************)
(* Folder contents.  A folder maps each stem of Stems to what it holds:    *)
(* "none" (no entry), "txt" (a file <stem>.txt), "bad" (a file <stem>.png  *)
(* that is no readable image), "dir" (a directory named <stem>.png), or    *)
(* the id of a readable image stored as the file <stem>.png.               *)
(***************************************************************************)
Stems == {"0001", "0002"}
\* the stems in the order sorted() gives their file names
StemOrder == <<"0001", "0002">>

Images ==
    [A |-> [w |-> 1, h |-> 1, px |-> << <<"r">> >>],
     B |-> [w |-> 2, h |-> 1, px |-> << <<"g", "b">> >>],
     C |-> [w |-> 1, h |-> 1, px |-> << <<"b">> >>]]
ImageIds == {"A", "B", "C"}
Entries == {"none", "txt", "bad", "dir"} \cup ImageIds

\* p.suffix.lower() == ".png"
PngSuffix(e) == e \in {"bad", "dir"} \cup ImageIds
\* p.is_file()
IsFile(e) == e \notin {"none", "dir"}
EntryName(stem, e) == stem \o (IF e = "txt" THEN ".txt" ELSE ".png")

RECURSIVE FilterSeq(_, _, _)
\* the elements s of seq with keep[s], in order
FilterSeq(seq, keep, acc) ==
    IF seq = <<>> THEN acc
    ELSE FilterSeq(Tail(seq), keep,
                   IF keep[Head(seq)] THEN Append(acc, Head(seq)) ELSE acc)

(***************************************************************************)
(* step4-render                                                            *)
(***************************************************************************)
\* script1-calculate-bounding-box.py main and read_image_any_format
Script1BoxMain(in) ==
    IF in.nargs < 3 THEN Res(1, {})
    ELSE IF ~in.numsOK THEN Res(1, {})
    ELSE IF ~Opens(in) THEN Res(1, {})
    ELSE Res(0, {File(AbsPath(in.cwd, [abs |-> FALSE, parts |-> <<>>]),
                      "output.png", "drawing")})

\* script2-radial-lines.py main and read_image_any_format
Script2RadialMain(in) ==
    IF in.nargs < 3 THEN Res(1, {})
    ELSE IF ~in.numsOK THEN Res(1, {})
    ELSE IF ~Opens(in) THEN Res(1, {})
    ELSE Res(0, {File(AbsPath(in.cwd, [abs |-> FALSE, parts |-> <<>>]),
                      "output.png", "drawing")})

\* out_dir = in_dir.parent / f"{in_dir.name}-overlay", as the OS resolves it
OverlayOutDir(in) ==
    LET parent == PurePathParent(in.path)
    IN  AbsPath(in.cwd, [abs   |-> parent.abs,
                         parts |-> Append(parent.parts,
                                          PurePathName(in.path) \o "-overlay")])

\* the overlay loop: one output per listed entry that opens as an image;
\* an entry that does not open is reported and skipped (except Exception)
OverlayLoop(in, pngs) ==
    { File(OverlayOutDir(in), EntryName(pngs[i], in.dir1[pngs[i]]),
           [base |-> in.dir1[pngs[i]], frame |-> i, total |-> Len(pngs)]) :
        i \in { j \in 1..Len(pngs) : in.dir1[pngs[j]] \in ImageIds } }

\* sorted([p for p in in_dir.iterdir() if p.is_file() and p.suffix.lower() == ".png"])
PngFiles(in) ==
    FilterSeq(StemOrder,
              [s \in Stems |-> IsFile(in.dir1[s]) /\ PngSuffix(in.dir1[s])], <<>>)

\* Script3Main without the test that the folder is a directory
Script3MainNoDirTest(in) ==
    IF in.nargs # 1 THEN Res(2, {})
    ELSE IF Len(PngFiles(in)) = 0 THEN Res(0, {})
    ELSE Res(0, OverlayLoop(in, PngFiles(in)))

\* script3-add-text-overlay.py main
Script3Main(in) ==
    IF in.nargs # 1 THEN Res(2, {})
    ELSE IF in.kind # "dir" THEN Res(1, {})
    ELSE IF Len(PngFiles(in)) = 0 THEN Res(0, {})
    ELSE Res(0, OverlayLoop(in, PngFiles(in)))

\* script4-double-overlay.py main: FONT_PATH_TOP (line 98) is not defined,
\* the NameError ends the run before the loop
Script4Main(in) ==
    IF in.nargs # 1 THEN Res(2, {})
    ELSE IF in.kind # "dir" THEN Res(1, {})
    ELSE IF Len(PngFiles(in)) = 0 THEN Res(0, {})
    ELSE Res(1, {})

\* script5-quadruple-overlay.py main
Script5Main(in) ==
    IF in.nargs # 1 THEN Res(2, {})
    ELSE IF in.kind # "dir" THEN Res(1, {})
    ELSE IF Len(PngFiles(in)) = 0 THEN Res(0, {})
    ELSE Res(0, OverlayLoop(in, PngFiles(in)))

\* script94-quadruple-fancy.py main
Script94FancyMain(in) ==
    IF in.nargs # 1 THEN Res(2, {})
    ELSE IF in.kind # "dir" THEN Res(1, {})
    ELSE IF Len(PngFiles(in)) = 0 THEN Res(0, {})
    ELSE Res(0, OverlayLoop(in, PngFiles(in)))

\* script96-quadruple-no-compress.py main: the listing has no is_file() test
Script96Main(in) ==
    LET pngs == FilterSeq(StemOrder, [s \in Stems |-> PngSuffix(in.dir1[s])], <<>>)
    IN  IF in.nargs # 1 THEN Res(2, {})
        ELSE IF in.kind # "dir" THEN Res(1, {})
        ELSE IF Len(pngs) = 0 THEN Res(0, {})
        ELSE Res(0, OverlayLoop(in, pngs))

\* concat_side_by_side with the two images in each other's place
ConcatRightLeft(img_left, img_right) ==
    [w  |-> img_left.w * 2,
     h  |-> img_left.h,
     px |-> [y \in 1..img_left.h |-> img_right.px[y] \o img_left.px[y]]]

\* script7-concat-frames.py concat_side_by_side
ConcatSideBySide(img_left, img_right) ==
    [w  |-> img_left.w * 2,
     h  |-> img_left.h,
     px |-> [y \in 1..img_left.h |-> img_left.px[y] \o img_right.px[y]]]

\* script7-concat-frames.py main
ConcatMain(in) ==
    LET dir1   == AbsPath(in.cwd, in.path)
        dir2   == AbsPath(in.cwd, in.path2)
        out    == Append(DirName(dir1), BaseName(dir1) \o BaseName(dir2))
        isPng  == [s \in Stems |-> /\ IsFile(in.dir1[s]) /\ PngSuffix(in.dir1[s])
                                   /\ IsFile(in.dir2[s]) /\ PngSuffix(in.dir2[s])]
        common == FilterSeq(StemOrder, isPng, <<>>)
        saved  == { i \in 1..Len(common) :
                      /\ in.dir1[common[i]] \in ImageIds
                      /\ in.dir2[common[i]] \in ImageIds
                      /\ Images[in.dir1[common[i]]].w = Images[in.dir2[common[i]]].w
                      /\ Images[in.dir1[common[i]]].h = Images[in.dir2[common[i]]].h }
    IN  IF in.nargs # 2 THEN Res(2, {})
        ELSE IF in.kind # "dir" THEN Res(1, {})
        ELSE IF in.kind2 # "dir" THEN Res(1, {})
        ELSE IF DirName(dir1) # DirName(dir2) THEN Res(1, {})
        ELSE IF Len(common) = 0 THEN Res(2, {})
        ELSE Res(0, { File(out, common[i] \o ".png",
                           ConcatSideBySide(Images[in.dir1[common[i]]],
                                            Images[in.dir2[common[i]]])) :
                        i \in saved })

\* script98: ensure_output_dir
EnsureOutputDir(in) ==
    LET a == AbsPath(in.cwd, in.path)
    IN  Append(DirName(a), BaseName(a) \o "-edited")

\* script98-vortex-art-release.py main.  Of the frames it writes only the
\* first is kept (the held seed frame); the run fails at the first listed
\* entry that does not load.  With at most REVERSE_SEED_FRAME inputs the
\* seed is the last input.
Script98ReleaseMain(in) ==
    LET files == FilterSeq(StemOrder, [s \in Stems |-> PngSuffix(in.dir1[s])], <<>>)
        seed  == in.dir1[files[Len(files)]]
        allOK == \A i \in 1..Len(files) : in.dir1[files[i]] \in ImageIds
    IN  IF in.nargs # 1 THEN Res(2, {})
        ELSE IF in.kind # "dir" THEN Res(1, {})
        ELSE IF Len(files) = 0 THEN Res(1, {})
        ELSE IF seed \notin ImageIds THEN Res(1, {})
        ELSE Res(IF allOK THEN 0 ELSE 1,
                 {File(EnsureOutputDir(in), "0001.png",
                       [base |-> seed, frame |-> 1, total |-> Len(files)])})

\* script98-vortex-art.py main: the seed is always the last input
Script98ArtMain(in) ==
    LET files == FilterSeq(StemOrder, [s \in Stems |-> PngSuffix(in.dir1[s])], <<>>)
        seed  == in.dir1[files[Len(files)]]
        allOK == \A i \in 1..Len(files) : in.dir1[files[i]] \in ImageIds
    IN  IF in.nargs # 1 THEN Res(2, {})
        ELSE IF in.kind # "dir" THEN Res(1, {})
        ELSE IF Len(files) = 0 THEN Res(1, {})
        ELSE IF seed \notin ImageIds THEN Res(1, {})
        ELSE Res(IF allOK THEN 0 ELSE 1,
                 {File(EnsureOutputDir(in), "0001.png",
                       [base |-> seed, frame |-> 1, total |-> Len(files)])})

(***************************************************************************)
(* v13                                                                     *)
(***************************************************************************)
\* script1-crop.py resolve_path: in.blend is the directory of the loaded
\* .blend file, <<>> when the script runs outside Blender or without one
ResolvePath(in) ==
    IF in.blend # <<>> THEN AbsPath(in.blend, in.path) ELSE AbsPath(in.cwd, in.path)

\* script1-crop.py build_output_path
BuildOutputPath(input_path) ==
    LET se == SplitExt(BaseName(input_path))
    IN  File(DirName(input_path), se[1] \o "-clipped" \o se[2], "raster")

\* script1-crop.py main, get_script_arg and clip_to_world_bounds
CropMain(in) ==
    IF in.nargs < 1 THEN Res(1, {})
    ELSE IF in.kind = "missing" THEN Res(1, {})
    ELSE IF ~Opens(in) THEN Res(1, {})
    ELSE IF ~in.geoOK THEN Res(1, {})
    ELSE Res(0, {BuildOutputPath(ResolvePath(in))})

(***************************************************************************)
(* The command lines and file systems the scripts are started on.          *)
(***************************************************************************)
Rel(parts) == [abs |-> FALSE, parts |-> parts]
Abs(parts) == [abs |-> TRUE, parts |-> parts]

Cwds == {<<"home", "w">>, <<"data">>}
\* in.tif, sub/in.tif, ../in.tif, /data/in.tif
FilePaths == {Rel(<<"in.tif">>), Rel(<<"sub", "in.tif">>),
              Rel(<<"..", "in.tif">>), Abs(<<"data", "in.tif">>)}
\* frames, sub/frames, ../frames, /data/frames, ".", ".."
FolderPaths == {Rel(<<"frames">>), Rel(<<"sub", "frames">>), Rel(<<"..", "frames">>),
                Abs(<<"data", "frames">>), Rel(<<>>), Rel(<<"..">>)}
\* what is found at the input path: <<kind, readable>>
Found == {<<"missing", FALSE>>, <<"file", TRUE>>, <<"file", FALSE>>, <<"dir", FALSE>>}
NoEntries == [s \in Stems |-> "none"]
Folders == [Stems -> Entries]

DefaultIn ==
    [nargs |-> 1, numsOK |-> TRUE, kind |-> "file", readable |-> TRUE, bands |-> 1,
     thr |-> TRUE, outOpt |-> FALSE, outPath |-> Rel(<<"out.tif">>), cropOK |-> TRUE,
     cwd |-> <<"home", "w">>, path |-> Rel(<<"in.tif">>), dir1 |-> NoEntries,
     path2 |-> Rel(<<"right">>), kind2 |-> "missing", dir2 |-> NoEntries,
     blend |-> <<>>, geoOK |-> TRUE]

\* a script taking a raster file and (required - 1) numbers
FileInputs(required) ==
    { [DefaultIn EXCEPT !.nargs = n, !.numsOK = ok, !.kind = f[1], !.readable = f[2],
                        !.bands = b, !.cwd = c, !.path = p] :
        n \in {required - 1, required}, ok \in BOOLEAN, f \in Found,
        b \in {1, 3, 4}, c \in Cwds, p \in FilePaths }

\* script7-chop-bottom.py: --threshold given or not, --output given or not
ChopInputs ==
    { [i EXCEPT !.thr = t, !.outOpt = o[1], !.outPath = o[2]] :
        i \in FileInputs(1), t \in BOOLEAN,
        o \in {<<FALSE, Rel(<<"out.tif">>)>>, <<TRUE, Rel(<<"out.tif">>)>>,
               <<TRUE, Abs(<<"tmp", "out.tif">>)>>} }

\* script8-crop-and-hardcode-crs.py: the crop leaves a positive width or not
Script8Inputs == { [i EXCEPT !.cropOK = k] : i \in FileInputs(5), k \in BOOLEAN }

\* v13/script1-crop.py: inside Blender with a .blend file loaded or not,
\* a geographic raster overlapping the world bounds or not
CropInputs ==
    { [i EXCEPT !.blend = b, !.geoOK = g] :
        i \in { j \in FileInputs(1) : j.numsOK /\ j.bands = 1 },
        b \in {<<>>, <<"proj">>}, g \in BOOLEAN }

\* a script taking one folder
FolderInputs ==
    { [DefaultIn EXCEPT !.nargs = n, !.kind = k, !.readable = FALSE, !.cwd = c,
                        !.path = p, !.dir1 = d] :
        n \in {0, 1}, k \in {"missing", "file", "dir"}, c \in Cwds,
        p \in FolderPaths, d \in Folders }

\* only a directory has entries
FolderInputsOK == { i \in FolderInputs : i.kind # "dir" => i.dir1 = NoEntries }

ConcatEntries == {"none", "bad", "A", "B", "C"}
ConcatFolders(kind) == IF kind = "dir" THEN [Stems -> ConcatEntries] ELSE {NoEntries}
\* script7-concat-frames.py: two folders; the same location is the same folder
ConcatInputs ==
    UNION { { i \in { [DefaultIn EXCEPT !.nargs = q[1], !.kind = q[2], !.readable = FALSE,
                                        !.path = q[4], !.dir1 = d1,
                                        !.path2 = q[5], !.kind2 = q[3], !.dir2 = d2] :
                        d1 \in ConcatFolders(q[2]), d2 \in ConcatFolders(q[3]) } :
                i.path = i.path2 => i.kind = i.kind2 /\ i.dir1 = i.dir2 } :
            q \in {1, 2} \X {"missing", "dir"} \X {"file", "dir"}
                  \X {Rel(<<"left">>), Rel(<<"sub", "left">>)}
                  \X {Rel(<<"right">>), Rel(<<"sub", "right">>), Rel(<<"left">>)} }

Scripts ==
    {"script6", "script7chop", "script8", "script9", "script94rgb", "script94v12",
     "script95", "script1box", "script2radial", "script3", "script4", "script5",
     "script94fancy", "script96", "concat", "script98release", "script98art", "crop"}

FolderScripts ==
    {"script3", "script4", "script5", "script94fancy", "script96",
     "script98release", "script98art"}

InputsOf(script) ==
    CASE script = "script6"       -> FileInputs(2)
      [] script = "script7chop"   -> ChopInputs
      [] script = "script8"       -> Script8Inputs
      [] script \in {"script9", "script94rgb", "script94v12", "script95"} -> FileInputs(1)
      [] script \in {"script1box", "script2radial"} -> FileInputs(3)
      [] script \in FolderScripts -> FolderInputsOK
      [] script = "concat"        -> ConcatInputs
      [] script = "crop"          -> CropInputs

(***************************************************************************)
(* The command-line machine: a script is started on a command line and     *)
(* runs to its end.                                                        *)
(***************************************************************************)
InitCli ==
    /\ cliScript \in Scripts
    /\ cliIn \in InputsOf(cliScript)
    /\ cliPc = "start"
    /\ cliExit = -1
    /\ cliOut = {}
    /\ IdleBut("cli")

\* the process ends with the outcome r
Finish(r) ==
    /\ cliPc' = "done"
    /\ cliExit' = r.exit
    /\ cliOut' = r.out
    /\ UNCHANGED <<cliScript, cliIn>>
    /\ KeepBut("cli")

Started(script) == cliPc = "start" /\ cliScript = script

RunScript6 == Started("script6") /\ Finish(Script6Main(cliIn))
RunScript7Chop == Started("script7chop") /\ Finish(Script7ChopMain(cliIn))
RunScript8 == Started("script8") /\ Finish(Script8Main(cliIn))
RunScript9 == Started("script9") /\ Finish(Script9Main(cliIn))
RunScript94Rgb == Started("script94rgb") /\ Finish(Script94RgbMain(cliIn))
RunScript94V12 == Started("script94v12") /\ Finish(Script94V12Main(cliIn))
RunScript95 == Started("script95") /\ Finish(Script95Main(cliIn))
RunScript1Box == Started("script1box") /\ Finish(Script1BoxMain(cliIn))
RunScript2Radial == Started("script2radial") /\ Finish(Script2RadialMain(cliIn))
RunScript3 == Started("script3") /\ Finish(Script3Main(cliIn))
RunScript4 == Started("script4") /\ Finish(Script4Main(cliIn))
RunScript5 == Started("script5") /\ Finish(Script5Main(cliIn))
RunScript94Fancy == Started("script94fancy") /\ Finish(Script94FancyMain(cliIn))
RunScript96 == Started("script96") /\ Finish(Script96Main(cliIn))
RunConcat == Started("concat") /\ Finish(ConcatMain(cliIn))
RunScript98Release == Started("script98release") /\ Finish(Script98ReleaseMain(cliIn))
RunScript98Art == Started("script98art") /\ Finish(Script98ArtMain(cliIn))
RunCrop == Started("crop") /\ Finish(CropMain(cliIn))

NextCli ==
    \/ RunScript6
    \/ RunScript7Chop
    \/ RunScript8
    \/ RunScript9
    \/ RunScript94Rgb
    \/ RunScript94V12
    \/ RunScript95
    \/ RunScript1Box
    \/ RunScript2Radial
    \/ RunScript3
    \/ RunScript4
    \/ RunScript5
    \/ RunScript94Fancy
    \/ RunScript96
    \/ RunConcat
    \/ RunScript98Release
    \/ RunScript98Art
    \/ RunCrop

(***************************************************************************)
(* Properties of the command-line machine.                                 *)
(***************************************************************************)
\* the number of positional arguments each script requires
RequiredArgs(script) ==
    CASE script = "script6" -> 2
      [] script = "script8" -> 5
      [] script \in {"script1box", "script2radial"} -> 3
      [] script = "concat" -> 2
      [] OTHER -> 1

ArgMissing ==
    \/ cliIn.nargs < RequiredArgs(cliScript)
    \/ cliScript = "script7chop" /\ ~cliIn.thr

PathMissing ==
    CASE cliScript \in FolderScripts -> cliIn.kind # "dir"
      [] cliScript = "concat"        -> cliIn.kind # "dir" \/ cliIn.kind2 # "dir"
      [] OTHER                       -> cliIn.kind = "missing"

\* C1: a command-line script started with a required argument missing, or
\* with an input path that does not exist (or is not a directory where a
\* folder is expected), ends with a non-zero exit status and has written no
\* output file.
C1_Theorem ==
    cliPc = "done" /\ (ArgMissing \/ PathMissing) => cliExit # 0 /\ cliOut = {}

\* C1 happens: concat-frames was given all its arguments, the second folder
\* is a file, and the run ended with status 1
C1_Witness ==
    /\ cliPc = "done"
    /\ cliScript = "concat"
    /\ ~ArgMissing
    /\ cliIn.kind = "dir" /\ cliIn.kind2 = "file"
    /\ cliExit = 1
    /\ cliOut = {}

\* where the input of the run is: the file or folder the script reads
InputLocation ==
    IF cliScript = "crop" THEN ResolvePath(cliIn) ELSE AbsPath(cliIn.cwd, cliIn.path)

\* the scripts whose input is a folder
FolderInput == cliScript \in FolderScripts \cup {"concat"}

\* f lies in the directory that contains the input file; for a folder input,
\* in a sibling folder of the input folder
NextToInput(f) ==
    IF FolderInput
    THEN /\ InputLocation # <<>>
         /\ DirName(f.dir) = DirName(InputLocation)
         /\ f.dir # InputLocation
    ELSE f.dir = DirName(InputLocation)

OverlayScripts == {"script3", "script4", "script5", "script94fancy", "script96"}

SiblingOverlay == Append(DirName(InputLocation), BaseName(InputLocation) \o "-overlay")

\* C7 as stated: a batch overlay script run on an existing folder (named by
\* a path that ends in the folder's name) with at least one readable PNG
\* writes, for every readable PNG of the folder, a PNG of the same name into
\* the sibling folder "<folder>-overlay".
C7_AsStated ==
    /\ cliPc = "done"
    /\ cliScript \in {"script3", "script4", "script5", "script94fancy"}
    /\ cliIn.nargs = 1 /\ cliIn.kind = "dir"
    /\ PurePathName(cliIn.path) \notin {"", ".."}
    /\ \E s \in Stems : cliIn.dir1[s] \in ImageIds
    => \A s \in Stems :
          cliIn.dir1[s] \in ImageIds =>
              \E f \in cliOut : /\ f.name = s \o ".png"
                                /\ f.dir = SiblingOverlay
                                /\ f.content.base = cliIn.dir1[s]

\* the run of concat-frames got as far as comparing the two folders
ConcatCompared ==
    /\ cliPc = "done" /\ cliScript = "concat"
    /\ cliIn.nargs = 2 /\ cliIn.kind = "dir" /\ cliIn.kind2 = "dir"
    /\ DirName(AbsPath(cliIn.cwd, cliIn.path)) = DirName(AbsPath(cliIn.cwd, cliIn.path2))

\* the name is a readable PNG in both folders and the two images agree in size
SameSizePair(s) ==
    /\ cliIn.dir1[s] \in ImageIds /\ cliIn.dir2[s] \in ImageIds
    /\ Images[cliIn.dir1[s]].w = Images[cliIn.dir2[s]].w
    /\ Images[cliIn.dir1[s]].h = Images[cliIn.dir2[s]].h

\* C8: concat-frames writes an output exactly for each name that is a PNG in
\* both folders with images of the same size; the output is twice as wide
\* and equally high, folder1's image in the left half and folder2's in the
\* right half; a pair of different sizes is skipped and the names after it
\* are still processed.
C8_Theorem ==
    ConcatCompared =>
        /\ \A s \in Stems : SameSizePair(s) <=> \E f \in cliOut : f.name = s \o ".png"
        /\ \A f \in cliOut : \E s \in Stems :
              LET l == Images[cliIn.dir1[s]]
                  r == Images[cliIn.dir2[s]]
              IN  /\ f.name = s \o ".png"
                  /\ f.content.w = 2 * l.w /\ f.content.h = l.h
                  /\ \A y \in 1..l.h : \A x \in 1..l.w :
                        /\ f.content.px[y][x] = l.px[y][x]
                        /\ f.content.px[y][l.w + x] = r.px[y][x]

\* C8 happens: 0001.png differs in size and is skipped, 0002.png after it is
\* combined from two different images
C8_Witness ==
    /\ ConcatCompared
    /\ cliIn.dir1["0001"] = "A" /\ cliIn.dir2["0001"] = "B"
    /\ cliIn.dir1["0002"] = "A" /\ cliIn.dir2["0002"] = "C"
    /\ \E f \in cliOut : f.name = "0002.png"
    /\ ~\E f \in cliOut : f.name = "0001.png"
    /\ cliExit = 0

(***************************************************************************)
(* step3-blender: what a script does when the scene lacks what it needs.   *)
(* A scene is [objects, vortices, keys]: the named objects present, the    *)
(* number of VORTEX force fields, and whether the vortex strength has the  *)
(* keyframes the scripts go on to read.                                    *)
(***************************************************************************)
ObjectNames ==
    {"inward-squared-force", "inward-squared-negative", "cross1", "cross2",
     "DOMAIN", "attractive", "repulsive", "constant"}
\* the named objects that are plain FORCE fields
PlainForces ==
    {"inward-squared-force", "inward-squared-negative", "attractive", "repulsive",
     "constant"}
MaxVortices == 2
Scenes ==
    [objects : SUBSET ObjectNames, vortices : 0..MaxVortices, keys : BOOLEAN,
     fluid : BOOLEAN]

\* the end of a script run: how it ended and what it printed
Ended(outcome, log) == [outcome |-> outcome, log |-> log]

\* SCRIPTBLENDER-V8.py main, find_object_by_name, find_single_vortex
V8Main(scene) ==
    LET warn == (IF {"inward-squared-force", "inward-squared-negative"} \subseteq scene.objects
                 THEN {} ELSE {"warn-not-found"})
                \cup (IF scene.vortices = 0 THEN {"warn-no-vortex"} ELSE {})
    IN  IF warn # {} THEN Ended("returned", warn \cup {"error-aborting"})
        ELSE IF ~scene.keys THEN Ended("returned", {"warn-nothing-to-do"})
        ELSE Ended("returned", {"done"})

\* SCRIPTBLENDER4-MULTIPLY1.5.py TARGETS (the last assignment)
TARGETS ==
    {"constant", "constant-negative", "large", "large-negative", "small",
     "small-negative", "huge", "huge-negative"}

\* SCRIPTBLENDER4-MULTIPLY1.5.py main
Multiply4Main(scene) ==
    Ended("returned",
          (IF TARGETS \subseteq scene.objects THEN {} ELSE {"not-found-skipping"})
          \cup (IF TARGETS \cap scene.objects # {} THEN {"scaled"} ELSE {}))

CROSS_NAMES == {"cross1", "cross2"}

\* SCRIPTBLENDER994-ROTATE-CROSS.py main: what main() raises, if anything
Rotate994Raises(scene) ==
    \/ scene.vortices # 1
    \/ ~scene.keys
    \/ ~(CROSS_NAMES \subseteq scene.objects)

\* Rotate994Run without the module-level try/except
Rotate994RunUncaught(scene) ==
    IF Rotate994Raises(scene) THEN Ended("raised", {})
    ELSE Ended("returned", {"done"})

\* SCRIPTBLENDER994-ROTATE-CROSS.py module level: try: main() except Exception
Rotate994Run(scene) ==
    IF Rotate994Raises(scene) THEN Ended("returned", {"ERROR"})
    ELSE Ended("returned", {"done"})

\* SCRIPTBLENDER992-save-progress-bake.py get_domain_named_DOMAIN, called
\* first by bake_all_in_chunks_all_cache
Bake992Run(scene) ==
    IF "DOMAIN" \notin scene.objects THEN Ended("raised", {})
    ELSE IF ~scene.fluid THEN Ended("raised", {})
    ELSE Ended("returned", {"done"})

\* SCRIPTBLENDER3.py module level: find_vortex, require_force_named
Script3Run(scene) ==
    IF scene.vortices = 0 THEN Ended("raised", {})
    ELSE IF "attractive" \notin scene.objects THEN Ended("raised", {})
    ELSE IF "repulsive" \notin scene.objects THEN Ended("raised", {})
    ELSE IF ~scene.keys THEN Ended("raised", {})
    ELSE Ended("returned", {"done"})

\* SCRIPTBLENDER-ADDKEYFRAMES.py module level
AddKeyframesRun(scene) ==
    IF scene.vortices = 0 THEN Ended("raised", {})
    ELSE IF Cardinality(scene.objects \cap PlainForces) < 2 THEN Ended("raised", {})
    ELSE IF ~scene.keys THEN Ended("raised", {})
    ELSE Ended("returned", {"done"})

PLAIN_FORCE_NAMES == {"inward-squared-force", "inward-squared-negative"}

\* SCRIPTBLENDER8-SCALE-ALL.py main: the messages about what is not found
ScaleAll8Main(scene) ==
    Ended("returned",
          (IF PLAIN_FORCE_NAMES \subseteq scene.objects THEN {} ELSE {"warn-not-found-skipping"})
          \cup (IF scene.vortices = 0 THEN {"warn-no-vortex"} ELSE {})
          \cup {"done"})

BlenderScripts ==
    {"V8", "MULTIPLY4", "ROTATE994", "BAKE992", "SCRIPT3", "ADDKEYFRAMES", "SCALEALL8"}

InitBlender ==
    /\ bScript \in BlenderScripts
    /\ bScene \in Scenes
    /\ bPc = "start"
    /\ bOutcome = "running"
    /\ bLog = {}
    /\ IdleBut("blender")

\* the script ends as r says
BlenderEnd(r) ==
    /\ bPc' = "done"
    /\ bOutcome' = r.outcome
    /\ bLog' = r.log
    /\ UNCHANGED <<bScript, bScene>>
    /\ KeepBut("blender")

BlenderStarted(script) == bPc = "start" /\ bScript = script

RunV8 == BlenderStarted("V8") /\ BlenderEnd(V8Main(bScene))
RunMultiply4 == BlenderStarted("MULTIPLY4") /\ BlenderEnd(Multiply4Main(bScene))
RunRotate994 == BlenderStarted("ROTATE994") /\ BlenderEnd(Rotate994Run(bScene))
RunBake992 == BlenderStarted("BAKE992") /\ BlenderEnd(Bake992Run(bScene))
RunBlender3 == BlenderStarted("SCRIPT3") /\ BlenderEnd(Script3Run(bScene))
RunAddKeyframes == BlenderStarted("ADDKEYFRAMES") /\ BlenderEnd(AddKeyframesRun(bScene))
RunScaleAll8 == BlenderStarted("SCALEALL8") /\ BlenderEnd(ScaleAll8Main(bScene))

NextBlender ==
    \/ RunV8
    \/ RunMultiply4
    \/ RunRotate994
    \/ RunBake992
    \/ RunBlender3
    \/ RunAddKeyframes
    \/ RunScaleAll8

\* what each script requires of the scene is missing
RequiredMissing ==
    CASE bScript = "V8" ->
           ~(PLAIN_FORCE_NAMES \subseteq bScene.objects) \/ bScene.vortices = 0
      [] bScript = "MULTIPLY4" -> ~(TARGETS \subseteq bScene.objects)
      [] bScript = "ROTATE994" ->
           ~(CROSS_NAMES \subseteq bScene.objects) \/ bScene.vortices # 1
      [] bScript = "BAKE992" -> "DOMAIN" \notin bScene.objects
      [] bScript = "SCRIPT3" ->
           ~({"attractive", "repulsive"} \subseteq bScene.objects) \/ bScene.vortices = 0
      [] bScript = "ADDKEYFRAMES" ->
           Cardinality(bScene.objects \cap PlainForces) < 2 \/ bScene.vortices = 0
      [] bScript = "SCALEALL8" -> ~(PLAIN_FORCE_NAMES \subseteq bScene.objects)

Min(a, b) == IF a < b THEN a ELSE b

\* SCRIPTBLENDER992-save-progress-bake.py
CHUNK == 5
MaxFrameEnd == 12
NoneBaked == -1

\* the end of a slice that is not cut at the end of the scene
ChunkEndUncut(current, orig_end) == current + CHUNK - 1

\* the end of the slice that starts at current
ChunkEnd(current, orig_end) == Min(current + CHUNK - 1, orig_end)

\* start_frame = (last_baked + 1) if last_baked is not None else orig_start
StartFrame(last_baked, orig_start) ==
    IF last_baked # NoneBaked THEN last_baked + 1 ELSE orig_start

\* a finally block that leaves the scene range as the last slice set it
RestoreNothing(st) == st

\* the finally block: scene.frame_start = orig_start, scene.frame_end = orig_end
RestoreRange(st) == [st EXCEPT !.frame_start = st.orig_start, !.frame_end = st.orig_end]

\* bake_all_in_chunks_all_cache up to the loop: the resume point
InitBake ==
    /\ lKind = "bake"
    /\ lPc = "begin"
    /\ \E os \in 1..2, oe \in 1..MaxFrameEnd, lb \in {NoneBaked} \cup 0..(MaxFrameEnd + 1) :
          /\ os <= oe
          /\ lSt = [orig_start |-> os, orig_end |-> oe, last_baked |-> lb,
                    current |-> 0, frame_start |-> os, frame_end |-> oe,
                    ranges |-> <<>>]
    /\ IdleBut("loops")

\* start_frame; "Nothing to bake" when it lies beyond the end
BakeBegin ==
    /\ lKind = "bake" /\ lPc = "begin"
    /\ LET start_frame == StartFrame(lSt.last_baked, lSt.orig_start)
       IN  IF start_frame > lSt.orig_end
           THEN lPc' = "done" /\ lSt' = lSt
           ELSE lPc' = "loop" /\ lSt' = [lSt EXCEPT !.current = start_frame]
    /\ UNCHANGED lKind
    /\ KeepBut("loops")

\* one iteration of the while loop whose bake call returns
BakeChunk ==
    /\ lKind = "bake" /\ lPc = "loop"
    /\ lSt.current <= lSt.orig_end
    /\ LET chunk_end == ChunkEnd(lSt.current, lSt.orig_end)
       IN  lSt' = [lSt EXCEPT !.frame_start = lSt.current, !.frame_end = chunk_end,
                              !.ranges = Append(@, <<lSt.current, chunk_end>>),
                              !.current = chunk_end + 1]
    /\ UNCHANGED <<lKind, lPc>>
    /\ KeepBut("loops")

\* one iteration whose bake call raises: the finally block restores the range
BakeChunkRaises ==
    /\ lKind = "bake" /\ lPc = "loop"
    /\ lSt.current <= lSt.orig_end
    /\ LET chunk_end == ChunkEnd(lSt.current, lSt.orig_end)
       IN  lSt' = RestoreRange([lSt EXCEPT !.frame_start = lSt.current,
                                           !.frame_end = chunk_end,
                                           !.ranges = Append(@, <<lSt.current, chunk_end>>)])
    /\ lPc' = "raised"
    /\ UNCHANGED lKind
    /\ KeepBut("loops")

\* the loop condition fails: the finally block, then the function returns
BakeExit ==
    /\ lKind = "bake" /\ lPc = "loop"
    /\ ~(lSt.current <= lSt.orig_end)
    /\ lSt' = RestoreRange(lSt)
    /\ lPc' = "done"
    /\ UNCHANGED lKind
    /\ KeepBut("loops")

\* script98-vortex-art-release.py generate_reverse_stage2_indices.  The
\* positions p1, p2, p3 and the anchor are kept multiplied by stage2_frames,
\* so that interval = max_index / stage2_frames is the integer max_index.
MaxStage2 == 7
MaxIndex == 4

\* int(round(n / d)) for d > 0: Python rounds halves to the even neighbour
RoundDiv(n, d) ==
    LET q == n \div d
        r == n - q * d
    IN  IF 2 * r < d THEN q
        ELSE IF 2 * r > d THEN q + 1
        ELSE IF q % 2 = 0 THEN q ELSE q + 1

\* the clamp of an index into [1, effective_max]
ClampIndex(idx, effective_max) ==
    IF idx < 1 THEN 1 ELSE IF idx > effective_max THEN effective_max ELSE idx

InitZigzag ==
    /\ lKind = "zigzag"
    /\ lPc = "begin"
    /\ \E sf \in 0..MaxStage2, mi \in 1..MaxIndex, si \in 1..MaxIndex :
          /\ si <= mi
          /\ lSt = [stage2_frames |-> sf, max_index |-> mi, start_index |-> si,
                    current_anchor |-> si * sf, indices |-> <<>>, int_indices |-> <<>>,
                    k |-> 1]
    /\ IdleBut("loops")

\* stage2_frames <= 0 returns the empty list at once
ZigBegin ==
    /\ lKind = "zigzag" /\ lPc = "begin"
    /\ lPc' = IF lSt.stage2_frames <= 0 THEN "done" ELSE "group"
    /\ UNCHANGED <<lKind, lSt>>
    /\ KeepBut("loops")

\* one iteration of "while len(indices) < stage2_frames": p1, p2, p3 and the
\* next anchor, with the breaks in between
ZigGroup ==
    /\ lKind = "zigzag" /\ lPc = "group"
    /\ Len(lSt.indices) < lSt.stage2_frames
    /\ LET n   == lSt.stage2_frames
           iv  == lSt.max_index
           p1  == lSt.current_anchor - 2 * iv
           p2  == p1 + iv
           p3  == p2 - 2 * iv
           i1  == Append(lSt.indices, p1)
           i2  == Append(i1, p2)
           i3  == Append(i2, p3)
           nxt == p3 - 2 * iv
       IN  IF Len(i1) >= n
           THEN lSt' = [lSt EXCEPT !.indices = i1] /\ lPc' = "convert"
           ELSE IF Len(i2) >= n
           THEN lSt' = [lSt EXCEPT !.indices = i2] /\ lPc' = "convert"
           ELSE IF Len(i3) >= n
           THEN lSt' = [lSt EXCEPT !.indices = i3] /\ lPc' = "convert"
           ELSE /\ lSt' = [lSt EXCEPT !.indices = i3, !.current_anchor = nxt]
                \* current_anchor < 1
                /\ lPc' = IF nxt < n THEN "convert" ELSE "group"
    /\ UNCHANGED lKind
    /\ KeepBut("loops")

\* one iteration of "for p in indices"
ZigConvert ==
    /\ lKind = "zigzag" /\ lPc = "convert"
    /\ lSt.k <= Len(lSt.indices)
    /\ LET idx == ClampIndex(RoundDiv(lSt.indices[lSt.k], lSt.stage2_frames), lSt.max_index)
           out == Append(lSt.int_indices, idx)
       IN  /\ lSt' = [lSt EXCEPT !.int_indices = out, !.k = @ + 1]
           /\ lPc' = IF Len(out) = lSt.stage2_frames THEN "pad" ELSE "convert"
    /\ UNCHANGED lKind
    /\ KeepBut("loops")

\* the for loop runs out of positions
ZigConvertEnd ==
    /\ lKind = "zigzag" /\ lPc = "convert"
    /\ lSt.k > Len(lSt.indices)
    /\ lPc' = "pad"
    /\ UNCHANGED <<lKind, lSt>>
    /\ KeepBut("loops")

\* one iteration of "while len(int_indices) < stage2_frames"
ZigPad ==
    /\ lKind = "zigzag" /\ lPc = "pad"
    /\ Len(lSt.int_indices) < lSt.stage2_frames
    /\ lSt' = [lSt EXCEPT !.int_indices = Append(@, 1)]
    /\ UNCHANGED <<lKind, lPc>>
    /\ KeepBut("loops")

\* return int_indices
ZigReturn ==
    /\ lKind = "zigzag" /\ lPc = "pad"
    /\ ~(Len(lSt.int_indices) < lSt.stage2_frames)
    /\ lPc' = "done"
    /\ UNCHANGED <<lKind, lSt>>
    /\ KeepBut("loops")

\* script98-vortex-art-release.py run_closing_sequence, stage 2.  The image
\* is kept as its count of non-white pixels; how many pixels the marker of
\* one frame whitens depends on the geometry and is left open.
MAX_FRAMES_STAGE2 == 5000
MaxRemaining == 2

\* the marker loop goes on without the cap on frame_in_stage2
ClosingGoesOnUncapped(remaining, frame_in_stage2) == remaining > 0

\* "while remaining_ref[0] > 0 and frame_in_stage2 < MAX_FRAMES_STAGE2"
ClosingGoesOn(remaining, frame_in_stage2) ==
    remaining > 0 /\ frame_in_stage2 < MAX_FRAMES_STAGE2

\* after the centre 2x2 is whitened and the first frame saved
InitClosing ==
    /\ lKind = "closing"
    /\ lPc = "loop"
    /\ \E r \in 0..MaxRemaining :
          lSt = [remaining |-> r, frame_in_stage2 |-> 1, forced |-> FALSE]
    /\ IdleBut("loops")

\* one iteration of the marker loop: some pixels turn white, a frame is saved
ClosingFrame ==
    /\ lKind = "closing" /\ lPc = "loop"
    /\ ClosingGoesOn(lSt.remaining, lSt.frame_in_stage2)
    /\ \E whitened \in 0..lSt.remaining :
          lSt' = [lSt EXCEPT !.remaining = @ - whitened, !.frame_in_stage2 = @ + 1]
    /\ UNCHANGED <<lKind, lPc>>
    /\ KeepBut("loops")

\* the loop ends; pixels still not white are forced white in one more frame
ClosingExit ==
    /\ lKind = "closing" /\ lPc = "loop"
    /\ ~ClosingGoesOn(lSt.remaining, lSt.frame_in_stage2)
    /\ lSt' = [lSt EXCEPT !.forced = (lSt.remaining > 0)]
    /\ lPc' = "done"
    /\ UNCHANGED lKind
    /\ KeepBut("loops")

InitLoops == InitBake \/ InitZigzag \/ InitClosing

NextLoops ==
    \/ BakeBegin
    \/ BakeChunk
    \/ BakeChunkRaises
    \/ BakeExit
    \/ ZigBegin
    \/ ZigGroup
    \/ ZigConvert
    \/ ZigConvertEnd
    \/ ZigPad
    \/ ZigReturn
    \/ ClosingFrame
    \/ ClosingExit

\* C3: each data-dependent loop terminates: the chunked bake loop (whether a
\* bake call returns or raises), the zig-zag index generator, and the closing
\* stage 2 marker loop, which runs fewer than MAX_FRAMES_STAGE2 iterations
\* even if non-white pixels remain.
C3_Theorem ==
    /\ [](lKind = "closing" => lSt.frame_in_stage2 - 1 < MAX_FRAMES_STAGE2)
    /\ <>(lPc \in {"done", "raised"})

\* C3 happens: the marker loop was ended by the cap with non-white pixels left
C3_Witness ==
    /\ lKind = "closing"
    /\ lPc = "done"
    /\ lSt.frame_in_stage2 = MAX_FRAMES_STAGE2
    /\ lSt.remaining > 0
    /\ lSt.forced

\* the frames of the range r = <<first, last>>
FramesOf(r) == r[1]..r[2]

\* C15: the ranges passed to bake_all are, in order, [s, s+CHUNK-1],
\* [s+CHUNK, s+2*CHUNK-1], ..., each cut at the original end frame, where s is
\* the last baked frame plus 1, or the original start frame when the cache
\* holds no baked frame; when the bake has run to its end the last range ends
\* at the original end frame and every frame from s to there lies in exactly
\* one range; when s is beyond the original end frame nothing is baked.
C15_Theorem ==
    lKind = "bake" =>
        LET s == StartFrame(lSt.last_baked, lSt.orig_start)
            ranges == lSt.ranges
        IN  /\ \A k \in 1..Len(ranges) :
                  /\ ranges[k][1] = s + (k - 1) * CHUNK
                  /\ ranges[k][2] = Min(s + k * CHUNK - 1, lSt.orig_end)
                  /\ ranges[k][1] <= ranges[k][2]
                  /\ ranges[k][2] - ranges[k][1] + 1 <= CHUNK
                  /\ k > 1 => ranges[k][1] = ranges[k - 1][2] + 1
            /\ lPc = "done" =>
                  IF s > lSt.orig_end THEN ranges = <<>>
                  ELSE /\ ranges # <<>>
                       /\ ranges[Len(ranges)][2] = lSt.orig_end
                       /\ \A f \in s..lSt.orig_end :
                             Cardinality({k \in 1..Len(ranges) : f \in FramesOf(ranges[k])}) = 1

\* a bake resumed after frame 1 of a scene 1..12 and ran to its end in three
\* ranges, the last of them one frame long
C15_Witness ==
    /\ lKind = "bake" /\ lPc = "done"
    /\ lSt.last_baked = 1 /\ lSt.orig_start = 1
    /\ lSt.ranges = <<(<<2, 6>>), (<<7, 11>>), (<<12, 12>>)>>

\* C16: however bake_all_in_chunks_all_cache ends after it has read the scene
\* range (at its end, with nothing to bake, or by an exception out of a bake
\* call), scene.frame_start and scene.frame_end are what they were at entry.
C16_Theorem ==
    (lKind = "bake" /\ lPc \in {"done", "raised"}) =>
        /\ lSt.frame_start = lSt.orig_start
        /\ lSt.frame_end = lSt.orig_end

\* the second bake call raised, after the first had narrowed the scene range
C16_Witness ==
    /\ lKind = "bake" /\ lPc = "raised"
    /\ Len(lSt.ranges) = 2
    /\ lSt.ranges[2] # <<lSt.orig_start, lSt.orig_end>>
    /\ lSt.frame_start = lSt.orig_start /\ lSt.frame_end = lSt.orig_end

\* C17 as stated: every range passed to bake_all lies within the original
\* frame range of the scene, whatever frame number the cache directory gives.
C17_AsStated ==
    lKind = "bake" =>
        \A k \in 1..Len(lSt.ranges) :
            /\ lSt.orig_start <= lSt.ranges[k][1]
            /\ lSt.ranges[k][2] <= lSt.orig_end

(***************************************************************************)
(* script98-vortex-art(-release).py list_input_frames, run twice on the    *)
(* same directory content.                                                 *)
(***************************************************************************)
FrameNames == {"1.png", "01.png", "2.png", "10.png", "a.png", "b.png"}
MaxFiles == 3

\* key_fn: int(base) when the stem is a number, else the stem itself (kept
\* as its rank among the stems)
KeyFn(name) ==
    CASE name = "1.png"  -> [int |-> TRUE, v |-> 1]
      [] name = "01.png" -> [int |-> TRUE, v |-> 1]
      [] name = "2.png"  -> [int |-> TRUE, v |-> 2]
      [] name = "10.png" -> [int |-> TRUE, v |-> 10]
      [] name = "a.png"  -> [int |-> FALSE, v |-> 1]
      [] name = "b.png"  -> [int |-> FALSE, v |-> 2]

\* the place of x in a list sorted by key: behind every element whose key
\* is not greater (list.sort is stable)
InsertStable(sorted, x) ==
    LET n == Cardinality({ i \in 1..Len(sorted) : KeyFn(sorted[i]).v <= KeyFn(x).v })
    IN  SubSeq(sorted, 1, n) \o <<x>> \o SubSeq(sorted, n + 1, Len(sorted))

RECURSIVE SortByKey(_, _)
\* files.sort(key=key_fn)
SortByKey(files, acc) ==
    IF files = <<>> THEN acc
    ELSE SortByKey(Tail(files), InsertStable(acc, Head(files)))

\* list_input_frames on a directory that os.listdir gives in this order
ListInputFrames(listing) ==
    IF Len(listing) = 0 THEN [status |-> "RuntimeError", frames |-> <<>>]
    ELSE IF \E i, j \in 1..Len(listing) : KeyFn(listing[i]).int # KeyFn(listing[j]).int
         THEN [status |-> "TypeError", frames |-> <<>>]
    ELSE [status |-> "returned", frames |-> SortByKey(listing, <<>>)]

\* the orders in which a directory holding the names of S can be listed
Listings(S) ==
    { l \in [1..Cardinality(S) -> S] : \A i, j \in 1..Cardinality(S) : l[i] = l[j] => i = j }

InitSort ==
    /\ \E S \in { T \in SUBSET FrameNames : Cardinality(T) <= MaxFiles } :
          sortListing \in [1..2 -> Listings(S)]
    /\ sortResult = [run \in 1..2 |-> [status |-> "pending", frames |-> <<>>]]
    /\ IdleBut("sort")

\* one run of the script lists the directory
RunListInputFrames ==
    /\ \E run \in 1..2 :
          /\ sortResult[run].status = "pending"
          /\ sortResult' = [sortResult EXCEPT ![run] = ListInputFrames(sortListing[run])]
    /\ UNCHANGED sortListing
    /\ KeepBut("sort")

NextSort == RunListInputFrames

\* C4 as stated: two runs on the same set of PNG names return the input
\* frames in the same order, however the operating system lists the folder.
C4_AsStated ==
    sortResult[1].status # "pending" /\ sortResult[2].status # "pending" =>
        sortResult[1] = sortResult[2]

(***************************************************************************)
(* script7-chop-bottom.py on a single-band raster.  Every number is kept   *)
(* in quarters (the value times 4), so that thresholds such as 2.5 and     *)
(* 3.25 are integers.  "float64" holds every quarter; "float32" stands for *)
(* a float type in which the threshold may not be representable: it holds  *)
(* the halves only, and a conversion rounds to the nearest half.           *)
(***************************************************************************)
Dtypes == {"uint8", "int8", "float32", "float64"}
IntegerDtypes == {"uint8", "int8"}

\* np.iinfo(dtype).min / .max
IInfoMin(dtype) == IF dtype = "uint8" THEN 0 ELSE -128
IInfoMax(dtype) == IF dtype = "uint8" THEN 255 ELSE 127

Max(a, b) == IF a > b THEN a ELSE b

\* lines 47-53: the threshold in the band dtype (thr4 and the result in quarters)
PrepareThreshold(dtype, thr4) ==
    IF dtype \in IntegerDtypes
    THEN 4 * Max(IInfoMin(dtype), Min(IInfoMax(dtype), RoundDiv(thr4, 4)))
    ELSE IF dtype = "float32" THEN 2 * RoundDiv(thr4, 2)
    ELSE thr4

\* a pixel written without regard to the mask
ChopPixelUnmasked(p, thr, fill_value) == IF p.v < thr THEN thr ELSE p.v

\* lines 56-62 and 70-72 for one pixel: replaced where valid and below the
\* threshold, filled where masked
ChopPixel(p, thr, fill_value) ==
    IF p.masked THEN fill_value
    ELSE IF p.v < thr THEN thr ELSE p.v

\* the pixel values (in quarters) the rasters are made of
PixelValues(dtype) ==
    CASE dtype = "uint8"   -> {0, 12, 40, 1020}
      [] dtype = "int8"    -> {-512, -20, 12, 508}
      [] dtype = "float32" -> {-4, 0, 12, 14}
      [] dtype = "float64" -> {-4, 0, 13, 14}

\* --threshold, in quarters: -250, -1, 2.5, 3.25, 3.5, 10, 300
Thresholds == {-1000, -4, 10, 13, 14, 40, 1200}

ChopPixels == 2

\* a band as src.read(1, masked=True) gives it: with a nodata value the
\* masked pixels are those that hold it, without one the mask comes from
\* the dataset's own mask
Bands ==
    UNION { { [dtype |-> d, nodata |-> nd, pixels |-> px] :
                nd \in {[defined |-> FALSE, v |-> 0]}
                       \cup { [defined |-> TRUE, v |-> x] : x \in PixelValues(d) },
                px \in [1..ChopPixels -> [v : PixelValues(d), masked : BOOLEAN]] } :
            d \in Dtypes }

InitChop ==
    /\ \E b \in Bands, t \in Thresholds :
          /\ b.nodata.defined => \A i \in 1..ChopPixels :
                                    b.pixels[i].masked <=> b.pixels[i].v = b.nodata.v
          /\ chopIn = [band |-> b, threshold |-> t]
    /\ chopPc = "start"
    /\ chopOut = <<>>
    /\ IdleBut("chop")

\* main, lines 34-72
RunChop ==
    /\ chopPc = "start"
    /\ LET band == chopIn.band
           thr  == PrepareThreshold(band.dtype, chopIn.threshold)
           fill_value == IF band.nodata.defined THEN band.nodata.v ELSE 0
       IN  chopOut' = [i \in 1..ChopPixels |-> ChopPixel(band.pixels[i], thr, fill_value)]
    /\ chopPc' = "done"
    /\ UNCHANGED chopIn
    /\ KeepBut("chop")

NextChop == RunChop

\* the masked pixels are written as the nodata value, 0 when none is defined
MaskedFilled ==
    \A i \in 1..ChopPixels :
        chopIn.band.pixels[i].masked =>
            chopOut[i] = IF chopIn.band.nodata.defined THEN chopIn.band.nodata.v ELSE 0

\* T as the claim gives it: rounded to an integer and clamped to the dtype's
\* range for an integer raster, T itself otherwise
StatedThresholds ==
    IF chopIn.band.dtype \in IntegerDtypes
    THEN { 4 * Max(IInfoMin(chopIn.band.dtype), Min(IInfoMax(chopIn.band.dtype), n)) :
             n \in { m \in -260..310 : 4 * m - chopIn.threshold \in -2..2 } }
    ELSE {chopIn.threshold}

\* C6 as stated: every unmasked output pixel equals max(input pixel, T), and
\* every masked pixel is written as the nodata value (0 when none is defined).
C6_AsStated ==
    chopPc = "done" =>
        /\ \E t \in StatedThresholds :
              \A i \in 1..ChopPixels :
                  ~chopIn.band.pixels[i].masked => chopOut[i] = Max(chopIn.band.pixels[i].v, t)
        /\ MaskedFilled

\* T in the band's dtype: as stated for an integer raster; for a float
\* raster a value of the float type that is nearest to T
DtypeThresholds ==
    IF chopIn.band.dtype = "float32"
    THEN { t \in (chopIn.threshold - 1)..(chopIn.threshold + 1) : t % 2 = 0 }
    ELSE StatedThresholds

\* C6: with T converted to the band's dtype (integer raster: rounded to an
\* integer and clamped to the dtype's range; float raster: rounded to the
\* nearest value of the float type), every unmasked output pixel equals
\* max(input pixel, T); every masked pixel is not clamped and is written as
\* the nodata value (0 when none is defined).
C6_Theorem ==
    chopPc = "done" =>
        /\ \E t \in DtypeThresholds :
              \A i \in 1..ChopPixels :
                  ~chopIn.band.pixels[i].masked => chopOut[i] = Max(chopIn.band.pixels[i].v, t)
        /\ MaskedFilled

\* C6 happens: a float raster with threshold 3.25, which the float type does
\* not hold; a valid pixel below it was raised and a masked pixel filled
C6_Witness ==
    /\ chopPc = "done"
    /\ chopIn.band.dtype = "float32" /\ chopIn.threshold = 13
    /\ ~chopIn.band.pixels[1].masked /\ chopIn.band.pixels[1].v = 0 /\ chopOut[1] = 12
    /\ chopIn.band.pixels[2].masked /\ chopOut[2] = chopIn.band.nodata.v

(***************************************************************************)
(* The TIME label of script94-quadruple-fancy.py and                       *)
(* script96-quadruple-no-compress.py.  A string of digits is the sequence  *)
(* of its digits.                                                          *)
(***************************************************************************)
MaxTotal == 30

RECURSIVE Str(_)
\* str(n) for n >= 0
Str(n) == IF n < 10 THEN <<n>> ELSE Append(Str(n \div 10), n % 10)

RECURSIVE Zfill(_, _)
\* s.zfill(width)
Zfill(str, width) == IF Len(str) >= width THEN str ELSE Zfill(<<0>> \o str, width)

\* HOURS_PER_FRAME in hundredths of an hour: 1 and 1.31
HoursPerFrame100(script) == IF script = "script94fancy" THEN 100 ELSE 131

\* the elapsed hours the label shows: (n * HOURS_PER_FRAME), in script96
\* rounded with int(round(...))
ElapsedHours(script, n) == RoundDiv(n * HoursPerFrame100(script), 100)

\* main: pad_days and pad_hours, computed from the last frame
PadWidths(script, total) ==
    LET max_elapsed == ElapsedHours(script, total - 1)
        max_days    == max_elapsed \div 24
        max_hours   == max_elapsed % 24
    IN  [pad_days  |-> Max(Len(Str(max_days)), 1),
         pad_hours |-> IF script = "script96" THEN 2 ELSE Max(Len(Str(max_hours)), 1)]

\* build_time_label: the two fields put in place of X and Y
BuildTimeLabel(script, frame_index, pad_days, pad_hours) ==
    LET elapsed == ElapsedHours(script, frame_index - 1)
    IN  [day  |-> Zfill(Str(elapsed \div 24), pad_days),
         hour |-> Zfill(Str(elapsed % 24), pad_hours)]

InitTime ==
    /\ tScript \in {"script94fancy", "script96"}
    /\ tTotal \in 1..MaxTotal
    /\ tIdx = 1
    /\ tLabels = <<>>
    /\ IdleBut("time")

\* one iteration of "for idx, src in enumerate(pngs, start=1)"
TimeFrame ==
    /\ tScript # "none"
    /\ tIdx <= tTotal
    /\ LET pad == PadWidths(tScript, tTotal)
       IN  tLabels' = Append(tLabels, BuildTimeLabel(tScript, tIdx, pad.pad_days, pad.pad_hours))
    /\ tIdx' = tIdx + 1
    /\ UNCHANGED <<tScript, tTotal>>
    /\ KeepBut("time")

NextTime == TimeFrame

\* C9 as stated: within one run the day field and the hour field of the TIME
\* label each have the same number of characters in every frame.
C9_AsStated ==
    \A i, j \in 1..Len(tLabels) :
        /\ Len(tLabels[i].day) = Len(tLabels[j].day)
        /\ Len(tLabels[i].hour) = Len(tLabels[j].hour)

(***************************************************************************)
(* SCRIPTBLENDER8-SCALE-ALL.py.  Keyframe values are whole multiples of    *)
(* 10^-8, so that SCALE = 0.9 applied a few times stays exact.             *)
(***************************************************************************)
\* SCALE = 0.9 as the fraction ScaleNum / ScaleDen
ScaleNum == 9
ScaleDen == 10

ActionIds == {1, 2}
NoAction == 0
SceneObjects == {"inward-squared-force", "inward-squared-negative", "vortex1"}
FieldType(name) == IF name = "vortex1" THEN "VORTEX" ELSE "FORCE"
DataPaths == {"field.strength", "field.flow"}

\* the actions of the scene: action 1 has keys on strength and flow, action 2
\* on strength only
SceneActions ==
    [a \in ActionIds |->
        IF a = 1
        THEN [p \in DataPaths |-> IF p = "field.strength" THEN <<100000000, -200000000>>
                                  ELSE <<100000000>>]
        ELSE [p \in DataPaths |-> IF p = "field.strength" THEN <<200000000>> ELSE <<>>]]

\* an object's animation data: its active action and the actions of its NLA strips
Animations ==
    [present : {TRUE}, action : {NoAction} \cup ActionIds,
     strips : {<<>>} \cup { <<a>> : a \in ActionIds }]
    \cup {[present |-> FALSE, action |-> NoAction, strips |-> <<>>]}

\* iter_object_actions: the active action, then the action of every NLA strip
IterObjectActions(obj) ==
    (IF obj.action # NoAction THEN <<obj.action>> ELSE <<>>) \o obj.strips

\* scale_fcurve_keyframes: every keyframe value times SCALE
ScaleFcurveKeyframes(keys) == [k \in 1..Len(keys) |-> (keys[k] * ScaleNum) \div ScaleDen]

RECURSIVE ScaleOver(_, _, _)
\* find_fcurves and the loop over them: the F-curve of data_path in each
\* yielded action is scaled, once per time the action is yielded
ScaleOver(actions, yielded, data_path) ==
    IF yielded = <<>> THEN actions
    ELSE ScaleOver([actions EXCEPT ![Head(yielded)][data_path] = ScaleFcurveKeyframes(@)],
                   Tail(yielded), data_path)

\* process_plain_force
ProcessPlainForce(actions, name, obj) ==
    IF FieldType(name) # "FORCE" THEN actions
    ELSE ScaleOver(actions, IterObjectActions(obj), "field.strength")

\* process_vortex_force
ProcessVortexForce(actions, name, obj) ==
    IF FieldType(name) # "VORTEX" THEN actions
    ELSE ScaleOver(ScaleOver(actions, IterObjectActions(obj), "field.strength"),
                   IterObjectActions(obj), "field.flow")

InitScale ==
    /\ scObjects \in [SceneObjects -> Animations]
    /\ scActions = SceneActions
    /\ scBefore = SceneActions
    /\ scQueue \in {<<"inward-squared-force", "inward-squared-negative">>,
                    <<"inward-squared-negative", "inward-squared-force">>}
    /\ scPc = "plain"
    /\ IdleBut("scale")

\* main, part 1: one name of PLAIN_FORCE_NAMES; a missing object is skipped
ScalePlainStep ==
    /\ scPc = "plain" /\ scQueue # <<>>
    /\ LET name == Head(scQueue)
       IN  scActions' = IF scObjects[name].present
                        THEN ProcessPlainForce(scActions, name, scObjects[name])
                        ELSE scActions
    /\ scQueue' = Tail(scQueue)
    /\ UNCHANGED <<scObjects, scBefore, scPc>>
    /\ KeepBut("scale")

\* main, part 2 begins: the vortex objects of the scene are collected
ScaleCollectVortex ==
    /\ scPc = "plain" /\ scQueue = <<>>
    /\ scQueue' = IF scObjects["vortex1"].present THEN <<"vortex1">> ELSE <<>>
    /\ scPc' = "vortex"
    /\ UNCHANGED <<scObjects, scActions, scBefore>>
    /\ KeepBut("scale")

\* main, part 2: one vortex object
ScaleVortexStep ==
    /\ scPc = "vortex" /\ scQueue # <<>>
    /\ scActions' = ProcessVortexForce(scActions, Head(scQueue), scObjects[Head(scQueue)])
    /\ scQueue' = Tail(scQueue)
    /\ UNCHANGED <<scObjects, scBefore, scPc>>
    /\ KeepBut("scale")

\* main ends
ScaleDone ==
    /\ scPc = "vortex" /\ scQueue = <<>>
    /\ scPc' = "done"
    /\ UNCHANGED <<scObjects, scActions, scBefore, scQueue>>
    /\ KeepBut("scale")

NextScale ==
    \/ ScalePlainStep
    \/ ScaleCollectVortex
    \/ ScaleVortexStep
    \/ ScaleDone

\* the data paths the script scales on an object of this name
ScaledPaths(name) ==
    IF FieldType(name) = "VORTEX" THEN {"field.strength", "field.flow"} ELSE {"field.strength"}

\* C10 as stated: after the run every keyframe value of the scaled properties
\* of the plain forces of PLAIN_FORCE_NAMES and of the vortex fields equals
\* SCALE times its value before the run.
C10_AsStated ==
    scPc = "done" =>
        \A name \in SceneObjects : \A i \in 1..Len(IterObjectActions(scObjects[name])) :
            \A p \in ScaledPaths(name) :
                LET a == IterObjectActions(scObjects[name])[i]
                IN  \A k \in 1..Len(scActions[a][p]) :
                        ScaleDen * scActions[a][p][k] = ScaleNum * scBefore[a][p][k]

(***************************************************************************)
(* SCRIPTBLENDER97-adjust-timescale: retime_keyframes_by_scale on one      *)
(* F-curve.  A frame is a whole number of ticks, TicksPerFrame ticks to    *)
(* the frame, so that EPS = 1e-6 frame is a whole number of ticks.  A      *)
(* keyframe is [co0, co1, hl, hr]: its frame, its value and the X of its   *)
(* left and right handle.                                                  *)
(***************************************************************************)
TicksPerFrame == 2000000
\* EPS = 1e-6, in ticks
RetimeEPS == 2
\* FACTOR = 1.34 = FACTOR_NUM / FACTOR_DEN
FACTOR_NUM == 67
FACTOR_DEN == 50

AbsVal(x) == IF x < 0 THEN -x ELSE x

\* is_frame(f, target), target in frames
IsFrame(f, target) == AbsVal(f - target * TicksPerFrame) < RetimeEPS

\* 1.0 + (old_f - 1.0) * scale; the frames of the model that move are a
\* multiple of FACTOR_DEN ticks away from frame 1, so the product is a whole
\* number of ticks
NewFrame(old_f) ==
    TicksPerFrame + ((old_f - TicksPerFrame) * FACTOR_NUM) \div FACTOR_DEN

\* the loop body with the test for frame 0 left out
RetimeKeyframeNoZeroTest(k) ==
    IF IsFrame(k.co0, 1) THEN k
    ELSE LET dx == NewFrame(k.co0) - k.co0
         IN  [k EXCEPT !.co0 = NewFrame(k.co0), !.hl = @ + dx, !.hr = @ + dx]

\* the body of "for k in kfs" on one keyframe
RetimeKeyframe(k) ==
    IF IsFrame(k.co0, 0) THEN k
    ELSE IF IsFrame(k.co0, 1) THEN k
    ELSE LET dx == NewFrame(k.co0) - k.co0
         IN  [k EXCEPT !.co0 = NewFrame(k.co0), !.hl = @ + dx, !.hr = @ + dx]

\* p sorts before q under key (co[0], co[1])
PairBefore(p, q) == p[1] < q[1] \/ (p[1] = q[1] /\ p[2] < q[2])

RECURSIVE InsertPair(_, _)
InsertPair(sorted, p) ==
    IF sorted = <<>> THEN <<p>>
    ELSE IF PairBefore(p, Head(sorted)) THEN <<p>> \o sorted
    ELSE <<Head(sorted)>> \o InsertPair(Tail(sorted), p)

RECURSIVE SortedPairs(_)
\* [(k.co[0], k.co[1]) for k in sorted(..., key=lambda p: (p.co[0], p.co[1]))]
SortedPairs(kfs) ==
    IF kfs = <<>> THEN <<>>
    ELSE InsertPair(SortedPairs(SubSeq(kfs, 1, Len(kfs) - 1)),
                    <<kfs[Len(kfs)].co0, kfs[Len(kfs)].co1>>)

MaxRetimeKeys == 3
RetimeFrames ==
    {-TicksPerFrame, 0, 1, TicksPerFrame - 1, TicksPerFrame,
     TicksPerFrame + FACTOR_DEN, 2 * TicksPerFrame}
RetimeValues == {0, 3}
\* handles lie a fixed distance left and right of their keyframe
RetimeKeys ==
    {[co0 |-> f, co1 |-> v, hl |-> f - 20, hr |-> f + 30] :
        f \in RetimeFrames, v \in RetimeValues}
RetimeCurves ==
    UNION {[1..n -> RetimeKeys] : n \in 0..MaxRetimeKeys}

InitRetime ==
    /\ IdleBut("curve")
    /\ kKind = "retime"
    /\ kPc = "loop"
    /\ \E kfs \in RetimeCurves :
          kSt = [kfs |-> kfs, before |-> kfs, i |-> 1, ret |-> "none"]

\* if len(kfs) < 1: return []
RetimeEmpty ==
    /\ kKind = "retime" /\ kPc = "loop"
    /\ Len(kSt.kfs) < 1
    /\ kPc' = "returned"
    /\ kSt' = [kSt EXCEPT !.ret = <<>>]
    /\ UNCHANGED kKind
    /\ KeepBut("curve")

\* one turn of "for k in kfs"
RetimeStep ==
    /\ kKind = "retime" /\ kPc = "loop"
    /\ kSt.i <= Len(kSt.kfs)
    /\ kSt' = [kSt EXCEPT !.kfs[kSt.i] = RetimeKeyframe(@), !.i = @ + 1]
    /\ UNCHANGED <<kKind, kPc>>
    /\ KeepBut("curve")

\* fc.update() and the returned list
RetimeReturn ==
    /\ kKind = "retime" /\ kPc = "loop"
    /\ Len(kSt.kfs) >= 1
    /\ kSt.i > Len(kSt.kfs)
    /\ kPc' = "returned"
    /\ kSt' = [kSt EXCEPT !.ret = SortedPairs(kSt.kfs)]
    /\ UNCHANGED kKind
    /\ KeepBut("curve")

NextRetime == RetimeEmpty \/ RetimeStep \/ RetimeReturn

QuartersPerFrame == 4

\* int(round(kp.co.x))
RoundFrame(x) == RoundDiv(x, QuartersPerFrame)

RECURSIVE InsertByX(_, _)
InsertByX(sorted, kp) ==
    IF sorted = <<>> THEN <<kp>>
    ELSE IF kp.x < Head(sorted).x THEN <<kp>> \o sorted
    ELSE <<Head(sorted)>> \o InsertByX(Tail(sorted), kp)

RECURSIVE SortedKeyframesPoints(_)
\* sorted(fcurve.keyframe_points, key=lambda kp: kp.co.x)
SortedKeyframesPoints(kps) ==
    IF kps = <<>> THEN <<>>
    ELSE InsertByX(SortedKeyframesPoints(SubSeq(kps, 1, Len(kps) - 1)), kps[Len(kps)])

\* obj.field.strength = value; obj.keyframe_insert(..., frame=frame)
InsertStrengthKey(curve, frame, value) ==
    {k \in curve : k[1] # frame} \cup {<<frame, value>>}

\* the loop body with a zero keyframe not taken as the new reference
RunsumStepKeepsReference(st) ==
    LET kp == st.kps[st.i]
        frame_i == RoundFrame(kp.x)
    IN  IF kp.y = 0 THEN [st EXCEPT !.i = @ + 1]
        ELSE LET lzf == IF st.has_zero THEN st.last_zero_frame
                        ELSE RoundFrame(st.kps[st.i - 1].x)
                 sum == st.running_sum + kp.y * (frame_i - lzf)
             IN  [st EXCEPT !.i = @ + 1, !.has_zero = TRUE, !.last_zero_frame = lzf,
                            !.running_sum = sum,
                            !.pos = InsertStrengthKey(@, frame_i, sum),
                            !.neg = InsertStrengthKey(@, frame_i, -sum),
                            !.log = Append(@, [frame |-> frame_i, sum |-> sum])]

\* the body of "for i in range(1, len(kps))"; st.i is i + 1
RunsumStep(st) ==
    LET kp == st.kps[st.i]
        frame_i == RoundFrame(kp.x)
    IN  IF kp.y = 0
        THEN [st EXCEPT !.i = @ + 1, !.has_zero = TRUE, !.last_zero_frame = frame_i]
        ELSE LET lzf == IF st.has_zero THEN st.last_zero_frame
                        ELSE RoundFrame(st.kps[st.i - 1].x)
                 sum == st.running_sum + kp.y * (frame_i - lzf)
             IN  [st EXCEPT !.i = @ + 1, !.has_zero = TRUE, !.last_zero_frame = lzf,
                            !.running_sum = sum,
                            !.pos = InsertStrengthKey(@, frame_i, sum),
                            !.neg = InsertStrengthKey(@, frame_i, -sum),
                            !.log = Append(@, [frame |-> frame_i, sum |-> sum])]

MaxRunsumKeys == 4
\* frames 0, 1, 1.5, 2.5 and 3
RunsumXs == {0, 4, 6, 10, 12}
RunsumYs == {0, 2, -3}
RunsumPoints == [x : RunsumXs, y : RunsumYs]
\* the keyframe points of the vortex curve, in the order the curve holds them
RunsumCurves ==
    {c \in UNION {[1..n -> RunsumPoints] : n \in 0..MaxRunsumKeys} :
        \A a, b \in 1..Len(c) : a # b => c[a].x # c[b].x}
\* the keys the two forces have before the run
RunsumForceCurves == {{}, {<<2, 9>>}}

InitRunsum ==
    /\ IdleBut("curve")
    /\ kKind = "runsum"
    /\ kPc = "start"
    /\ \E c \in RunsumCurves, f \in RunsumForceCurves :
          kSt = [kps |-> c, i |-> 1, running_sum |-> 0,
                 has_zero |-> FALSE, last_zero_frame |-> 0,
                 pos |-> f, neg |-> f, pos0 |-> f, log |-> <<>>]

\* lines 57-64: "if not kps": raise RuntimeError
RunsumNoKeyframes ==
    /\ kKind = "runsum" /\ kPc = "start"
    /\ kSt.kps = <<>>
    /\ kPc' = "raised"
    /\ UNCHANGED <<kKind, kSt>>
    /\ KeepBut("curve")

\* lines 61-84: the sorted keyframes and the first of them
RunsumFirst ==
    /\ kKind = "runsum" /\ kPc = "start"
    /\ kSt.kps # <<>>
    /\ LET kps == SortedKeyframesPoints(kSt.kps)
       IN  kSt' = [kSt EXCEPT !.kps = kps, !.i = 2,
                              !.has_zero = (kps[1].y = 0),
                              !.last_zero_frame =
                                  IF kps[1].y = 0 THEN RoundFrame(kps[1].x) ELSE 0]
    /\ kPc' = "loop"
    /\ UNCHANGED kKind
    /\ KeepBut("curve")

\* one turn of the loop at lines 87-114
RunsumKeyframe ==
    /\ kKind = "runsum" /\ kPc = "loop"
    /\ kSt.i <= Len(kSt.kps)
    /\ kSt' = RunsumStep(kSt)
    /\ UNCHANGED <<kKind, kPc>>
    /\ KeepBut("curve")

\* lines 116-129: the logs are printed
RunsumEnd ==
    /\ kKind = "runsum" /\ kPc = "loop"
    /\ kSt.i > Len(kSt.kps)
    /\ kPc' = "done"
    /\ UNCHANGED <<kKind, kSt>>
    /\ KeepBut("curve")

NextRunsum == RunsumNoKeyframes \/ RunsumFirst \/ RunsumKeyframe \/ RunsumEnd

\* the frame of a keyframe at x, in quarters: the whole frame the script
\* rounds it to, or x itself
FrameOfKey(x, rounded) == IF rounded THEN QuartersPerFrame * RoundFrame(x) ELSE x

\* the index of the most recent zero-valued keyframe before keyframe j
RefIndex(kps, j) ==
    CHOOSE z \in 1..(j - 1) :
        /\ kps[z].y = 0
        /\ \A w \in (z + 1)..(j - 1) : kps[w].y # 0

RECURSIVE ExpectedSum(_, _, _)
\* four times the sum, over the non-zero keyframes 2..j, of
\* value * (frame - frame of the most recent zero-valued keyframe)
ExpectedSum(kps, j, rounded) ==
    IF j < 2 THEN 0
    ELSE ExpectedSum(kps, j - 1, rounded)
         + IF kps[j].y = 0 THEN 0
           ELSE kps[j].y * (FrameOfKey(kps[j].x, rounded)
                            - FrameOfKey(kps[RefIndex(kps, j)].x, rounded))

RECURSIVE NonZeroUpTo(_, _)
\* the indices in 2..n of the non-zero keyframes, in frame order
NonZeroUpTo(kps, n) ==
    IF n < 2 THEN <<>>
    ELSE IF kps[n].y = 0 THEN NonZeroUpTo(kps, n - 1)
    ELSE Append(NonZeroUpTo(kps, n - 1), n)

\* what the scan has done with the keyframes it has passed, the first
\* keyframe being zero-valued
RunsumScanned(rounded) ==
    (kKind = "runsum" /\ kPc \in {"loop", "done"} /\ kSt.kps[1].y = 0) =>
        LET kps == kSt.kps
            log == kSt.log
            nz == NonZeroUpTo(kps, kSt.i - 1)
        IN  /\ Len(log) = Len(nz)
            /\ \A n \in 1..Len(nz) :
                  /\ QuartersPerFrame * log[n].frame = FrameOfKey(kps[nz[n]].x, rounded)
                  /\ QuartersPerFrame * log[n].sum = ExpectedSum(kps, nz[n], rounded)
                  /\ (\A m \in (n + 1)..Len(log) : log[m].frame # log[n].frame)
                        => /\ <<log[n].frame, log[n].sum>> \in kSt.pos
                           /\ <<log[n].frame, -log[n].sum>> \in kSt.neg
            /\ \A k \in kSt.pos :
                  k \in kSt.pos0 \/ \E n \in 1..Len(log) : k = <<log[n].frame, log[n].sum>>
            /\ \A k \in kSt.neg :
                  k \in kSt.pos0 \/ \E n \in 1..Len(log) : k = <<log[n].frame, -log[n].sum>>
            /\ Len(nz) > 0 => kSt.running_sum = log[Len(log)].sum

\* C12 as stated: the frame of a keyframe is where the keyframe lies.  The
\* first keyframe and the zero-valued keyframes write nothing; each non-zero
\* keyframe adds value * (its frame - frame of the most recent zero-valued
\* keyframe) to running_sum and keys the two forces at its frame to
\* +running_sum and -running_sum.
C12_AsStated == RunsumScanned(FALSE)

\* C12: the same with the frame of a keyframe taken as int(round(co.x)), the
\* whole frame nearest to where the keyframe lies (a tie goes to the even
\* frame): distances are measured between these whole frames, the forces are
\* keyed there to +running_sum and -running_sum, and a later key at the same
\* whole frame replaces the earlier one.
C12_Theorem == RunsumScanned(TRUE)

\* a scan that met a zero-valued keyframe between two non-zero ones, one of
\* them off the whole frames
C12_Witness ==
    /\ kKind = "runsum" /\ kPc = "done"
    /\ Len(kSt.kps) = 4
    /\ kSt.kps[1].y = 0 /\ kSt.kps[2].y # 0 /\ kSt.kps[3].y = 0 /\ kSt.kps[4].y # 0
    /\ kSt.kps[2].x = 6
    /\ Len(kSt.log) = 2
    /\ kSt.log[1].frame = 2
    /\ kSt.log[2].sum # kSt.log[1].sum
    /\ <<kSt.log[2].frame, kSt.log[2].sum>> \in kSt.pos

(***************************************************************************)
(* SCRIPTBLENDER95-DELETE-ZERO-VALUE-KEYFRAMES:                            *)
(* delete_zero_strength_keyframes_except_ends on one object.  A keyframe   *)
(* is [id, x, y]: id its index in fcu.keyframe_points at entry, x its      *)
(* frame, y its value in units of EPS = 1e-6.                              *)
(***************************************************************************)
DelzeroEPS == 1

RECURSIVE InsertIndexByX(_, _, _)
InsertIndexByX(kps, sorted, i) ==
    IF sorted = <<>> THEN <<i>>
    ELSE IF kps[i].x < kps[Head(sorted)].x THEN <<i>> \o sorted
    ELSE <<Head(sorted)>> \o InsertIndexByX(kps, Tail(sorted), i)

RECURSIVE OrderUpTo(_, _)
OrderUpTo(kps, n) ==
    IF n = 0 THEN <<>> ELSE InsertIndexByX(kps, OrderUpTo(kps, n - 1), n)

\* order = sorted(range(len(kps)), key=lambda i: kps[i].co.x)
OrderByX(kps) == OrderUpTo(kps, Len(kps))

\* the collection of indices with the first and the last not skipped
ToDeleteWithEnds(kps) ==
    {i \in 1..Len(kps) : AbsVal(kps[i].y) <= DelzeroEPS}

\* to_delete: the indices in order[1:-1] whose value is within EPS of zero
ToDelete(kps) ==
    LET order == OrderByX(kps)
    IN  {order[p] : p \in {q \in 2..(Len(order) - 1) : AbsVal(kps[order[q]].y) <= DelzeroEPS}}

\* fcu.keyframe_points.remove(kps[i])
RemovePoint(points, i) == SelectSeq(points, LAMBDA k : k.id # i)

SetMax(S) == CHOOSE m \in S : \A o \in S : o <= m

MaxDelzeroKeys == 4
DelzeroXs == {1, 2, 3}
\* 0 and -1 are within EPS of zero, 2 is not
DelzeroYs == {0, -1, 2}
DelzeroFieldTypes == {"FORCE", "VORTEX", "none"}
DelzeroCurves ==
    UNION {[1..n -> [x : DelzeroXs, y : DelzeroYs]] : n \in 0..MaxDelzeroKeys}
WithIds(c) == [i \in 1..Len(c) |-> [id |-> i, x |-> c[i].x, y |-> c[i].y]]

InitDelzero ==
    /\ IdleBut("curve")
    /\ kKind = "delzero"
    /\ kPc = "start"
    /\ \E t \in DelzeroFieldTypes, has_fcu \in BOOLEAN, c \in DelzeroCurves :
          /\ has_fcu \/ c = <<>>
          /\ kSt = [field_type |-> t, has_fcu |-> has_fcu,
                    points |-> WithIds(c), kps |-> WithIds(c),
                    to_delete |-> {}, deleted |-> 0, ret |-> -1]

\* lines 33-40: no field, not a FORCE field, no curve or fewer than 3 keyframes
DelzeroReturnEarly ==
    /\ kKind = "delzero" /\ kPc = "start"
    /\ \/ kSt.field_type # "FORCE"
       \/ ~kSt.has_fcu
       \/ Len(kSt.points) < 3
    /\ kPc' = "returned"
    /\ kSt' = [kSt EXCEPT !.ret = 0]
    /\ UNCHANGED kKind
    /\ KeepBut("curve")

\* lines 42-55
DelzeroCollect ==
    /\ kKind = "delzero" /\ kPc = "start"
    /\ kSt.field_type = "FORCE" /\ kSt.has_fcu /\ Len(kSt.points) >= 3
    /\ kPc' = "remove"
    /\ kSt' = [kSt EXCEPT !.to_delete = ToDelete(kSt.kps)]
    /\ UNCHANGED kKind
    /\ KeepBut("curve")

\* one turn of "for i in sorted(to_delete, reverse=True)"
DelzeroRemove ==
    /\ kKind = "delzero" /\ kPc = "remove"
    /\ kSt.to_delete # {}
    /\ LET i == SetMax(kSt.to_delete)
       IN  kSt' = [kSt EXCEPT !.points = RemovePoint(@, i),
                              !.to_delete = @ \ {i},
                              !.deleted = @ + 1]
    /\ UNCHANGED <<kKind, kPc>>
    /\ KeepBut("curve")

\* lines 66-69: fcu.update() puts the points in frame order; return deleted
DelzeroReturn ==
    /\ kKind = "delzero" /\ kPc = "remove"
    /\ kSt.to_delete = {}
    /\ kPc' = "returned"
    /\ kSt' = [kSt EXCEPT !.ret = kSt.deleted,
                          !.points = IF kSt.deleted > 0
                                     THEN SortedKeyframesPoints(@) ELSE @]
    /\ UNCHANGED kKind
    /\ KeepBut("curve")

NextDelzero == DelzeroReturnEarly \/ DelzeroCollect \/ DelzeroRemove \/ DelzeroReturn

\* the keyframe that is first (last) in frame order; of several keyframes on
\* the same frame, sorted() keeps the earlier index first
FirstByFrame(kps) ==
    CHOOSE i \in 1..Len(kps) :
        \A j \in 1..Len(kps) : kps[i].x < kps[j].x \/ (kps[i].x = kps[j].x /\ i <= j)
LastByFrame(kps) ==
    CHOOSE i \in 1..Len(kps) :
        \A j \in 1..Len(kps) : kps[i].x > kps[j].x \/ (kps[i].x = kps[j].x /\ i >= j)

\* C13: on a FORCE object whose strength curve has at least 3 keyframes, the
\* keyframes left are exactly the first, the last and the non-zero ones, each
\* with the frame and value it had, and the returned count is the number of
\* keyframes removed.
C13_Theorem ==
    (kKind = "delzero" /\ kPc = "returned"
     /\ kSt.field_type = "FORCE" /\ kSt.has_fcu /\ Len(kSt.kps) >= 3) =>
        LET kps == kSt.kps
            kept == {i \in 1..Len(kps) :
                        \/ i = FirstByFrame(kps)
                        \/ i = LastByFrame(kps)
                        \/ AbsVal(kps[i].y) > DelzeroEPS}
        IN  /\ {kSt.points[p] : p \in 1..Len(kSt.points)} = {kps[i] : i \in kept}
            /\ Len(kSt.points) = Cardinality(kept)
            /\ kSt.ret = Len(kps) - Len(kSt.points)

\* a curve with keyframes on frames 1, 2 and 3 lost the zero keyframe on
\* frame 2 and kept the zero keyframe on frame 1 and the non-zero one on 3
C13_Witness ==
    /\ kKind = "delzero" /\ kPc = "returned"
    /\ Len(kSt.kps) = 3 /\ kSt.ret = 1
    /\ {<<kSt.kps[i].x, kSt.kps[i].y>> : i \in 1..3} = {<<1, 0>>, <<2, -1>>, <<3, 2>>}
    /\ {<<kSt.points[p].x, kSt.points[p].y>> : p \in 1..Len(kSt.points)}
          = {<<1, 0>>, <<3, 2>>}

(***************************************************************************)
(* SCRIPTBLENDER96-v9-physics: backfill_strength_keyframes on one object   *)
(* with at most one F-curve on DATA_PATH.  A keyframe is                   *)
(* [id, x, y, hl, hr]: id its index in fc.keyframe_points, x its frame,    *)
(* y its value, hl and hr the Y of its left and right handle.              *)
(***************************************************************************)
\* what the checks at lines 17-36 find
BackfillObjects == {"none", "no-field", "VORTEX", "no-action", "no-fcurves", "FORCE"}

\* range(len(kps) - 1, 1, -1) carried on down to the second keyframe
BackfillGoesOnToSecond(i) == i >= 2

\* range(len(kps) - 1, 1, -1) has not run out; i counts from 1
BackfillGoesOn(i) == i >= 3

\* lines 51-64: the value of the keyframe before goes into keyframe i
BackfillAt(kps, i) ==
    LET prev_val == kps[i - 1].y
    IN  [kps EXCEPT ![i].y = prev_val, ![i].hl = prev_val, ![i].hr = prev_val]

MaxBackfillKeys == 4
BackfillXs == {1, 2, 3}
BackfillYs == {0, 5, 7}
BackfillCurves ==
    UNION {[1..n -> [x : BackfillXs, y : BackfillYs]] : n \in 0..MaxBackfillKeys}
WithHandles(c) ==
    [i \in 1..Len(c) |-> [id |-> i, x |-> c[i].x, y |-> c[i].y,
                          hl |-> c[i].y, hr |-> c[i].y]]

InitBackfill ==
    /\ IdleBut("curve")
    /\ kKind = "backfill"
    /\ kPc = "start"
    /\ \E o \in BackfillObjects, c \in BackfillCurves :
          /\ o = "FORCE" \/ c = <<>>
          /\ kSt = [obj |-> o, before |-> WithHandles(c), kps |-> WithHandles(c),
                    i |-> 0, log |-> <<>>]

\* lines 17-36 and 41-43: nothing to work on
BackfillSkip ==
    /\ kKind = "backfill" /\ kPc = "start"
    /\ kSt.obj # "FORCE" \/ Len(kSt.kps) < 3
    /\ kPc' = "done"
    /\ UNCHANGED <<kKind, kSt>>
    /\ KeepBut("curve")

\* lines 40-46: kps.sort(key=lambda k: k.co[0])
BackfillSort ==
    /\ kKind = "backfill" /\ kPc = "start"
    /\ kSt.obj = "FORCE" /\ Len(kSt.kps) >= 3
    /\ kPc' = "walk"
    /\ kSt' = [kSt EXCEPT !.kps = SortedKeyframesPoints(@), !.i = Len(kSt.kps)]
    /\ UNCHANGED kKind
    /\ KeepBut("curve")

\* one turn of "for i in range(len(kps) - 1, 1, -1)"
BackfillStep ==
    /\ kKind = "backfill" /\ kPc = "walk"
    /\ BackfillGoesOn(kSt.i)
    /\ kSt' = [kSt EXCEPT !.kps = BackfillAt(@, kSt.i), !.i = @ - 1,
                          !.log = Append(@, [frame |-> kSt.kps[kSt.i].x,
                                             old |-> kSt.kps[kSt.i].y,
                                             new |-> kSt.kps[kSt.i - 1].y])]
    /\ UNCHANGED <<kKind, kPc>>
    /\ KeepBut("curve")

\* lines 71-78: fc.update()
BackfillUpdate ==
    /\ kKind = "backfill" /\ kPc = "walk"
    /\ ~BackfillGoesOn(kSt.i)
    /\ kPc' = "done"
    /\ UNCHANGED <<kKind, kSt>>
    /\ KeepBut("curve")

NextBackfill == BackfillSkip \/ BackfillSort \/ BackfillStep \/ BackfillUpdate

\* C14: on a FORCE object whose curve has n >= 3 keyframes, taken in frame
\* order, the 1st and 2nd keyframe have the value they had, every keyframe
\* i >= 3 has the value keyframe i-1 had before the run, and every keyframe
\* is on the frame it was on.
C14_Theorem ==
    (kKind = "backfill" /\ kPc = "done" /\ kSt.obj = "FORCE" /\ Len(kSt.before) >= 3) =>
        LET old == SortedKeyframesPoints(kSt.before)
            new == kSt.kps
        IN  /\ Len(new) = Len(old)
            /\ \A i \in 1..Len(old) :
                  /\ new[i].id = old[i].id
                  /\ new[i].x = old[i].x
                  /\ new[i].y = IF i >= 3 THEN old[i - 1].y ELSE old[i].y

\* a curve of four keyframes, held out of frame order, whose 3rd and 4th
\* keyframe took the values 5 and 7 that the 2nd and 3rd had
C14_Witness ==
    /\ kKind = "backfill" /\ kPc = "done"
    /\ Len(kSt.before) = 4
    /\ kSt.before[1].x > kSt.before[2].x
    /\ kSt.kps[2].y = 5 /\ kSt.kps[3].y = 5 /\ kSt.kps[4].y = 7
    /\ Len(kSt.log) = 2 /\ kSt.log[1].old = 0 /\ kSt.log[2].old = 7

(***************************************************************************)
(* SCRIPTBLENDER3: the module-level script from line 36 on, the vortex and *)
(* the two forces being found.  A vortex keyframe is [x, y], x in quarters *)
(* of a frame.  Values are whole numbers, so |v| <= EPS is v = 0.          *)
(***************************************************************************)
\* v_fc.evaluate(frame): the value of the keyframe that lies on the frame;
\* between keyframes the value depends on the handles and the interpolation
\* and is left open
Evaluate(kps, frame, values) ==
    IF \E n \in 1..Len(kps) : kps[n].x = QuartersPerFrame * frame
    THEN {kps[n].y : n \in {m \in 1..Len(kps) : kps[m].x = QuartersPerFrame * frame}}
    ELSE values

\* lines 68-92 with the count stepped on a zero-strength keyframe too
KeyingStepCountsZero(st, v_strength) ==
    LET frame == RoundFrame(st.keyframes[st.i].x)
        a == AbsVal(v_strength)
        seen == [st EXCEPT !.i = @ + 1, !.evals = Append(@, v_strength),
                           !.nonzero_seen = @ + 1]
    IN  IF a <= 0 THEN seen
        ELSE IF st.nonzero_seen % 2 = 0
        THEN [seen EXCEPT !.attractive = InsertStrengthKey(@, frame, -a),
                          !.repulsive = InsertStrengthKey(@, frame, a),
                          !.log = Append(@, [idx |-> st.i, frame |-> frame, a |-> a])]
        ELSE seen

\* lines 68-92: the body of "for kp in keyframes[1:]", v_strength being what
\* v_fc.evaluate(frame) gave
KeyingStep(st, v_strength) ==
    LET frame == RoundFrame(st.keyframes[st.i].x)
        a == AbsVal(v_strength)
        passed == [st EXCEPT !.i = @ + 1, !.evals = Append(@, v_strength)]
    IN  IF a <= 0 THEN passed
        ELSE IF st.nonzero_seen % 2 = 0
        THEN [passed EXCEPT !.attractive = InsertStrengthKey(@, frame, -a),
                            !.repulsive = InsertStrengthKey(@, frame, a),
                            !.log = Append(@, [idx |-> st.i, frame |-> frame, a |-> a]),
                            !.nonzero_seen = @ + 1]
        ELSE [passed EXCEPT !.nonzero_seen = @ + 1]

MaxKeyingKeys == 4
\* frames 0, 1, 1.5, 2 and 3
KeyingXs == {0, 4, 6, 8, 12}
KeyingYs == {0, 3, -4}
KeyingCurves ==
    {c \in UNION {[1..n -> [x : KeyingXs, y : KeyingYs]] : n \in 0..MaxKeyingKeys} :
        \A a, b \in 1..Len(c) : a # b => c[a].x # c[b].x}

InitKeying ==
    /\ IdleBut("curve")
    /\ kKind = "keying"
    /\ kPc = "start"
    /\ \E c \in KeyingCurves :
          kSt = [keyframes |-> c, i |-> 1, nonzero_seen |-> 0, evals |-> <<>>,
                 attractive |-> {}, repulsive |-> {}, log |-> <<>>]

\* lines 37-39: no curve or no keyframes: raise RuntimeError
KeyingNoKeyframes ==
    /\ kKind = "keying" /\ kPc = "start"
    /\ kSt.keyframes = <<>>
    /\ kPc' = "raised"
    /\ UNCHANGED <<kKind, kSt>>
    /\ KeepBut("curve")

\* lines 41-65: the keyframes sorted, the first of them keyed
KeyingFirst ==
    /\ kKind = "keying" /\ kPc = "start"
    /\ kSt.keyframes # <<>>
    /\ LET keyframes == SortedKeyframesPoints(kSt.keyframes)
           first_frame == RoundFrame(keyframes[1].x)
       IN  \E first_strength \in Evaluate(keyframes, first_frame, KeyingYs) :
              LET first_abs == AbsVal(first_strength)
              IN  kSt' = [kSt EXCEPT
                            !.keyframes = keyframes, !.i = 2,
                            !.evals = <<first_strength>>,
                            !.attractive = InsertStrengthKey(@, first_frame, -first_abs),
                            !.repulsive = InsertStrengthKey(@, first_frame, first_abs),
                            !.log = <<[idx |-> 1, frame |-> first_frame, a |-> first_abs]>>,
                            !.nonzero_seen = IF first_abs > 0 THEN 1 ELSE 0]
    /\ kPc' = "loop"
    /\ UNCHANGED kKind
    /\ KeepBut("curve")

\* one turn of "for kp in keyframes[1:]"
KeyingKeyframe ==
    /\ kKind = "keying" /\ kPc = "loop"
    /\ kSt.i <= Len(kSt.keyframes)
    /\ \E v_strength \in Evaluate(kSt.keyframes, RoundFrame(kSt.keyframes[kSt.i].x), KeyingYs) :
          kSt' = KeyingStep(kSt, v_strength)
    /\ UNCHANGED <<kKind, kPc>>
    /\ KeepBut("curve")

\* line 94
KeyingDone ==
    /\ kKind = "keying" /\ kPc = "loop"
    /\ kSt.i > Len(kSt.keyframes)
    /\ kPc' = "done"
    /\ UNCHANGED <<kKind, kSt>>
    /\ KeepBut("curve")

NextKeying == KeyingNoKeyframes \/ KeyingFirst \/ KeyingKeyframe \/ KeyingDone

RECURSIVE NonZeroCount(_, _)
\* how many of the first n values are non-zero
NonZeroCount(vals, n) ==
    IF n = 0 THEN 0
    ELSE NonZeroCount(vals, n - 1) + IF vals[n] # 0 THEN 1 ELSE 0

\* the keyframes, among the first n, that are keyed when their strengths are
\* vals: the first, and the 1st, 3rd, 5th, ... with a non-zero strength
KeyedIndices(vals, n) ==
    {idx \in 1..n :
        \/ idx = 1
        \/ vals[idx] # 0 /\ NonZeroCount(vals, idx) % 2 = 1}

\* the log holds, in order, one entry for each keyframe of idxs and no other
LogIsFor(log, idxs) ==
    /\ {log[n].idx : n \in 1..Len(log)} = idxs
    /\ \A m, n \in 1..Len(log) : m < n => log[m].idx < log[n].idx

\* the curves of the two forces hold, at each keyed frame, minus and plus the
\* last |v| keyed there, and nothing else
ForcesKeyed(st) ==
    /\ \A n \in 1..Len(st.log) :
          (\A m \in (n + 1)..Len(st.log) : st.log[m].frame # st.log[n].frame)
             => /\ <<st.log[n].frame, -st.log[n].a>> \in st.attractive
                /\ <<st.log[n].frame, st.log[n].a>> \in st.repulsive
    /\ \A k \in st.attractive : \E n \in 1..Len(st.log) : k = <<st.log[n].frame, -st.log[n].a>>
    /\ \A k \in st.repulsive : \E n \in 1..Len(st.log) : k = <<st.log[n].frame, st.log[n].a>>

SpecCli == InitCli /\ [][NextCli]_vars

SpecBlender == InitBlender /\ [][NextBlender]_vars

\* a script runs single-threaded and synchronously: it keeps taking steps
SpecLoops == InitLoops /\ [][NextLoops]_vars /\ WF_vars(NextLoops)

SpecSort == InitSort /\ [][NextSort]_vars

SpecChop == InitChop /\ [][NextChop]_vars

SpecTime == InitTime /\ [][NextTime]_vars

SpecScale == InitScale /\ [][NextScale]_vars

SpecRetime == InitRetime /\ [][NextRetime]_vars

SpecRunsum == InitRunsum /\ [][NextRunsum]_vars

SpecDelzero == InitDelzero /\ [][NextDelzero]_vars

SpecBackfill == InitBackfill /\ [][NextBackfill]_vars

SpecKeying == InitKeying /\ [][NextKeying]_vars

=============================================================================
